---- MODULE Spec2Model ----
(***************************************************************************)
(* Loader Coordinator of src/lib/translation.ts: the translator cache      *)
(* (bergamotTranslators), the in-flight table (activeLoaders), the calls   *)
(* loadBergamotModel / translateWithBergamot through getBergamotTranslator *)
(* and cancelBergamotModelLoad.                                            *)
(*                                                                         *)
(* Scheduling is the JavaScript event loop: a call runs without            *)
(* interruption from one await to the next, so one action is the code      *)
(* between two suspension points.  A continuation of an already settled    *)
(* promise runs in the same microtask checkpoint, before any timer,        *)
(* network or user event, and is part of the action that settles it.       *)
(*                                                                         *)
(* The translator library (@browsermt/bergamot-translator) is not code of  *)
(* the repository: its translate() is an environment that drives           *)
(* CustomBacking.fetch once per model file and may fail at any time.       *)
(***************************************************************************)
EXTENDS Integers, FiniteSets, Sequences, TLC

\* bounds: calls of loadBergamotModel / translateWithBergamot, and of
\* cancelBergamotModelLoad, in one behaviour
MaxCalls == 2
MaxCancels == 1

\* totalFilesEstimate of a direct pair (model, vocab, lex): translate
\* resolves after that many CustomBacking.fetch calls
FilesPerModel == 3

Langs == {"ja", "en", "fr"}
Callers == {"A", "B"}
\* every call creates at most one AbortController and one translator
Handles == 1..MaxCalls

\* Map.get of a key that is not in the map
NoHandle == 0

\* const modelKey = `${sourceLang}-${targetLang}`
ModelKey(sourceLang, targetLang) == sourceLang \o "-" \o targetLang

\* The language pair the calls are about.  Every access of the two tables is a
\* Map.has / get / set / delete of modelKey, so pairs never interact.
LangPairs == {<<"ja", "en">>}
Keys == {ModelKey(p[1], p[2]) : p \in LangPairs}

VARIABLES
    bergamotTranslators,  \* Map modelKey -> translator (NoHandle: no entry)
    activeLoaders,        \* Map modelKey -> abortController of the LoadRecord
    aborted,              \* the AbortControllers whose abort() was called
    nextId,               \* identity of the next AbortController / translator
    stage,                \* per translator: "none", "idle", "fetch", "ready"
    filesDownloaded,      \* per translator: CustomBacking.filesDownloaded
    hkey,                 \* per translator: the modelKey it was created for
    pc,                   \* per caller: the await its call is suspended at
    op,                   \* per caller: "load" or "translate"
    key,                  \* per caller: modelKey of the call
    sig,                  \* per caller: abortSignal.aborted
    onProg,               \* per caller: an onProgress callback was passed
    ctrl,                 \* per caller: the controller its call registered
    tr,                   \* per caller: the translator obtained / returned
    res,                  \* per caller: outcome of the last call
    calls,                \* number of load / translate calls started
    cancels,              \* number of cancelBergamotModelLoad calls
    obs,                  \* per caller: what happened during the call
    trialOK,              \* translators whose trial translation succeeded
    completed,            \* modelKey -> translator of a load that succeeded
    cancelled,            \* controllers aborted by cancelBergamotModelLoad
    last                  \* the last operation that ran

\* The parts of the module that a specification follows one at a time; a
\* specification that does not follow a part leaves its variable at Unobserved
VARIABLES
    progress,             \* one caller's loads and their onProgress callback
    registry,             \* the registry cache and the calls that read it
    resolver,             \* a registry document, a pair, what is computed of them
    transport,            \* the worker of one translator and the calls made to it
    outcome,              \* one loadBergamotModel call and the error it ends with
    parse                 \* one registry call and the document it receives

coordVars == <<bergamotTranslators, activeLoaders, aborted, nextId, cancels>>
libVars == <<stage, filesDownloaded, hkey>>
callVars == <<pc, op, key, sig, onProg, ctrl, tr, res, calls>>
histVars == <<obs, trialOK, completed, cancelled, last>>
loaderVars == <<coordVars, libVars, callVars, histVars>>
vars == <<loaderVars, progress, registry, resolver, transport, outcome, parse>>

Put(f, x, v) == [f EXCEPT ![x] = v]

\* Map.delete(modelKey)
MapDelete(m, k) == [m EXCEPT ![k] = NoHandle]

\* Map.has(modelKey)
MapHas(m, k) == m[k] # NoHandle

\* last: ev "loadFail" (a loadBergamotModel call was rejected; flag: inside its
\* try block; h: the controller it had registered), ev "cancel" (flag: a
\* LoadRecord existed); before: the cache entry of k when the step began
NoEvent ==
    [ev |-> "none", c |-> "", k |-> "", flag |-> FALSE, h |-> NoHandle,
     before |-> NoHandle]

LoaderInit ==
    /\ bergamotTranslators = [k \in Keys |-> NoHandle]
    /\ activeLoaders = [k \in Keys |-> NoHandle]
    /\ aborted = {}
    /\ nextId = 1
    /\ stage = [h \in Handles |-> "none"]
    /\ filesDownloaded = [h \in Handles |-> 0]
    /\ hkey = [h \in Handles |-> ""]
    /\ pc = [c \in Callers |-> "idle"]
    /\ op = [c \in Callers |-> "load"]
    /\ key = [c \in Callers |-> ""]
    /\ sig = [c \in Callers |-> FALSE]
    /\ onProg = [c \in Callers |-> FALSE]
    /\ ctrl = [c \in Callers |-> NoHandle]
    /\ tr = [c \in Callers |-> NoHandle]
    /\ res = [c \in Callers |-> "none"]
    /\ calls = 0
    /\ cancels = 0
    /\ obs = [c \in Callers |-> {}]
    /\ trialOK = {}
    /\ completed = [k \in Keys |-> NoHandle]
    /\ cancelled = {}
    /\ last = NoEvent

\* ------------------------------------------------- caller bookkeeping
SetCaller(c, p, r, h, ct, sg, pr) ==
    /\ pc' = Put(pc, c, p)
    /\ res' = Put(res, c, r)
    /\ tr' = Put(tr, c, h)
    /\ ctrl' = Put(ctrl, c, ct)
    /\ sig' = Put(sig, c, sg)
    /\ onProg' = Put(onProg, c, pr)

\* the call settles: resolved ("ok") or rejected ("aborted", "failed")
EndCall(c, r, h) == SetCaller(c, "idle", r, h, NoHandle, FALSE, FALSE)

LoadFailEvent(c, k, inTry, ct) ==
    [ev |-> "loadFail", c |-> c, k |-> k, flag |-> inTry, h |-> ct,
     before |-> bergamotTranslators[k]]

\* (variant: a catch block that rethrows without deleting the entry)
LoadCatchKeeps(m, k) == m

\* catch block of loadBergamotModel: bergamotTranslators.delete(modelKey)
LoadCatch(m, k) == MapDelete(m, k)

\* what an error leaving getBergamotTranslator does to the cache: the catch
\* of loadBergamotModel deletes the entry, translateWithBergamot only rethrows
Rejected(o, m, k) == IF o = "load" THEN LoadCatch(m, k) ELSE m

RejectEvent(c, o, k, ct) == IF o = "load" THEN LoadFailEvent(c, k, TRUE, ct) ELSE NoEvent

\* The caller's code after `await getBergamotTranslator(...)` returned h:
\* the abortSignal check, then translator.translate is started.
Obtain(c, o, sg, h, pr) ==
    IF sg
    THEN EndCall(c, "aborted", NoHandle)
    ELSE SetCaller(c, IF o = "load" THEN "trial" ELSE "translate", "none", h,
                   ctrl[c], FALSE, pr)

ObtainedCache(o, sg, m, k) == IF sg THEN Rejected(o, m, k) ELSE m

ObtainedEvent(c, o, sg, k) == IF sg THEN RejectEvent(c, o, k, ctrl[c]) ELSE NoEvent

\* (variant: no check for an existing LoadRecord, every miss registers)
GetTranslatorMissNoWait(c, o, k, pr, ob) ==
    /\ SetCaller(c, "import", "none", NoHandle, nextId, FALSE, pr)
    /\ activeLoaders' = Put(activeLoaders, k, nextId)
    /\ nextId' = nextId + 1
    /\ obs' = Put(obs, c, ob)
    /\ UNCHANGED <<bergamotTranslators, cancels>>

\* getBergamotTranslator past the cache check with a token that has not
\* fired: wait for a LoadRecord that exists, otherwise register one.
GetTranslatorMiss(c, o, k, pr, ob) ==
    IF MapHas(activeLoaders, k)
    THEN /\ SetCaller(c, "wait", "none", NoHandle, NoHandle, FALSE, pr)
         /\ obs' = Put(obs, c, ob \cup {"waited"})
         /\ UNCHANGED <<bergamotTranslators, activeLoaders, nextId, cancels>>
    ELSE /\ SetCaller(c, "import", "none", NoHandle, nextId, FALSE, pr)
         /\ activeLoaders' = Put(activeLoaders, k, nextId)
         /\ nextId' = nextId + 1
         /\ obs' = Put(obs, c, ob)
         /\ UNCHANGED <<bergamotTranslators, cancels>>

\* ------------------------------------------------------ the operations
loadBergamotModel(c, sourceLang, targetLang, a, p) ==
    LET k == ModelKey(sourceLang, targetLang) IN
    /\ pc[c] = "idle"
    /\ calls < MaxCalls
    /\ calls' = calls + 1
    /\ op' = Put(op, c, "load")
    /\ key' = Put(key, c, k)
    /\ UNCHANGED <<libVars, aborted, trialOK, completed, cancelled>>
    /\ IF a
       THEN /\ EndCall(c, "aborted", NoHandle)
            /\ obs' = Put(obs, c, {})
            /\ last' = LoadFailEvent(c, k, FALSE, NoHandle)
            /\ UNCHANGED <<bergamotTranslators, activeLoaders, nextId, cancels>>
       ELSE IF MapHas(bergamotTranslators, k)
       THEN /\ EndCall(c, "ok", bergamotTranslators[k])
            /\ obs' = Put(obs, c, {})
            /\ last' = NoEvent
            /\ UNCHANGED <<bergamotTranslators, activeLoaders, nextId, cancels>>
       ELSE /\ GetTranslatorMiss(c, "load", k, p, {})
            /\ last' = NoEvent

translateWithBergamot(c, sourceLanguage, targetLanguage, a) ==
    LET k == ModelKey(sourceLanguage, targetLanguage) IN
    /\ pc[c] = "idle"
    /\ calls < MaxCalls
    /\ calls' = calls + 1
    /\ op' = Put(op, c, "translate")
    /\ key' = Put(key, c, k)
    /\ last' = NoEvent
    /\ UNCHANGED <<libVars, aborted, trialOK, completed, cancelled>>
    /\ IF a
       THEN /\ EndCall(c, "aborted", NoHandle)
            /\ obs' = Put(obs, c, {})
            /\ UNCHANGED <<bergamotTranslators, activeLoaders, nextId, cancels>>
       ELSE IF MapHas(bergamotTranslators, k)
       THEN /\ SetCaller(c, "translate", "none", bergamotTranslators[k],
                         NoHandle, FALSE, FALSE)
            /\ obs' = Put(obs, c, {})
            /\ UNCHANGED <<bergamotTranslators, activeLoaders, nextId, cancels>>
       ELSE GetTranslatorMiss(c, "translate", k, FALSE, {})

\* (variant: the wait loop ends at its first wake-up, whatever it finds)
WaitWakeOnce(c) ==
    LET k == key[c] IN
    /\ pc[c] = "wait"
    /\ UNCHANGED <<libVars, aborted, trialOK, completed, cancelled>>
    /\ UNCHANGED <<op, key, calls>>
    /\ IF MapHas(bergamotTranslators, k)
       THEN /\ Obtain(c, op[c], sig[c], bergamotTranslators[k], onProg[c])
            /\ bergamotTranslators' = ObtainedCache(op[c], sig[c], bergamotTranslators, k)
            /\ last' = ObtainedEvent(c, op[c], sig[c], k)
            /\ UNCHANGED <<activeLoaders, nextId, cancels, obs>>
       ELSE IF sig[c]
       THEN /\ EndCall(c, "aborted", NoHandle)
            /\ bergamotTranslators' = Rejected(op[c], bergamotTranslators, k)
            /\ last' = RejectEvent(c, op[c], k, NoHandle)
            /\ UNCHANGED <<activeLoaders, nextId, cancels, obs>>
       ELSE /\ GetTranslatorMissNoWait(c, op[c], k, onProg[c], obs[c])
            /\ last' = NoEvent

\* the 100 ms timer of the wait loop fires (a wake-up that finds the record
\* still present and the token quiet sleeps again and changes nothing)
WaitWake(c) ==
    LET k == key[c] IN
    /\ pc[c] = "wait"
    /\ MapHas(bergamotTranslators, k) \/ ~MapHas(activeLoaders, k) \/ sig[c]
    /\ UNCHANGED <<libVars, aborted, trialOK, completed, cancelled>>
    /\ UNCHANGED <<op, key, calls>>
    /\ IF MapHas(bergamotTranslators, k)
       THEN /\ Obtain(c, op[c], sig[c], bergamotTranslators[k], onProg[c])
            /\ bergamotTranslators' = ObtainedCache(op[c], sig[c], bergamotTranslators, k)
            /\ last' = ObtainedEvent(c, op[c], sig[c], k)
            /\ UNCHANGED <<activeLoaders, nextId, cancels, obs>>
       ELSE IF sig[c]
       THEN /\ EndCall(c, "aborted", NoHandle)
            /\ bergamotTranslators' = Rejected(op[c], bergamotTranslators, k)
            /\ last' = RejectEvent(c, op[c], k, NoHandle)
            /\ UNCHANGED <<activeLoaders, nextId, cancels, obs>>
       ELSE /\ GetTranslatorMiss(c, op[c], k, onProg[c], obs[c])
            /\ last' = NoEvent

\* the dynamic import resolves: backing and translator are created, the
\* translator is stored in the cache, the finally block retires the record
ImportDone(c) ==
    LET k == key[c]
        h == ctrl[c] IN
    /\ pc[c] = "import"
    /\ bergamotTranslators' =
           ObtainedCache(op[c], sig[c], Put(bergamotTranslators, k, h), k)
    /\ activeLoaders' = MapDelete(activeLoaders, k)
    /\ stage' = Put(stage, h, "idle")
    /\ hkey' = Put(hkey, h, k)
    /\ Obtain(c, op[c], sig[c], h, onProg[c])
    /\ last' = ObtainedEvent(c, op[c], sig[c], k)
    /\ UNCHANGED <<aborted, nextId, cancels, filesDownloaded, op, key, calls>>
    /\ UNCHANGED <<obs, trialOK, completed, cancelled>>

\* the dynamic import (or a constructor) throws inside the try block
ImportFails(c) ==
    LET k == key[c] IN
    /\ pc[c] = "import"
    /\ bergamotTranslators' = Rejected(op[c], MapDelete(bergamotTranslators, k), k)
    /\ activeLoaders' = MapDelete(activeLoaders, k)
    /\ EndCall(c, "failed", NoHandle)
    /\ last' = RejectEvent(c, op[c], k, ctrl[c])
    /\ UNCHANGED <<aborted, nextId, cancels, libVars, op, key, calls>>
    /\ UNCHANGED <<obs, trialOK, completed, cancelled>>

\* the caller's AbortSignal fires; abortHandler (registered from the creation
\* of the controller to the finally block) forwards it to the controller
AbortSignalFires(c) ==
    /\ pc[c] # "idle"
    /\ ~sig[c]
    /\ sig' = Put(sig, c, TRUE)
    /\ aborted' = IF pc[c] = "import" THEN aborted \cup {ctrl[c]} ELSE aborted
    /\ obs' = IF pc[c] \in {"trial", "translate"} /\ stage[tr[c]] = "fetch"
              THEN Put(obs, c, obs[c] \cup {"signal"})
              ELSE obs
    /\ last' = NoEvent
    /\ UNCHANGED <<bergamotTranslators, activeLoaders, nextId, cancels, libVars>>
    /\ UNCHANGED <<pc, op, key, onProg, ctrl, tr, res, calls>>
    /\ UNCHANGED <<trialOK, completed, cancelled>>

\* cancelBergamotModelLoad, as a function of the three tables
CancelAborted(ab, l, k) == IF MapHas(l, k) THEN ab \cup {l[k]} ELSE ab

CancelLoaders(l, k) == IF MapHas(l, k) THEN MapDelete(l, k) ELSE l

\* (variant: the cache entry is deleted outside the `if (loader)` block)
CancelTranslatorsAlways(m, l, k) == MapDelete(m, k)

CancelTranslators(m, l, k) == IF MapHas(l, k) THEN MapDelete(m, k) ELSE m

CancelState(st, k) ==
    [tr |-> CancelTranslators(st.tr, st.ld, k),
     ld |-> CancelLoaders(st.ld, k),
     ab |-> CancelAborted(st.ab, st.ld, k)]

Tables == [tr |-> bergamotTranslators, ld |-> activeLoaders, ab |-> aborted]

\* a caller whose trial translation is downloading a model file of pair k
MidDownload(c, k) ==
    /\ pc[c] = "trial"
    /\ key[c] = k
    /\ stage[tr[c]] = "fetch"

cancelBergamotModelLoad(sourceLang, targetLang) ==
    LET k == ModelKey(sourceLang, targetLang)
        st == CancelState(Tables, k) IN
    /\ cancels < MaxCancels
    /\ cancels' = cancels + 1
    /\ bergamotTranslators' = st.tr
    /\ activeLoaders' = st.ld
    /\ aborted' = st.ab
    /\ cancelled' = IF MapHas(activeLoaders, k)
                    THEN cancelled \cup {activeLoaders[k]}
                    ELSE cancelled
    /\ obs' = [c \in Callers |->
                 IF MidDownload(c, k) THEN obs[c] \cup {"cancel"} ELSE obs[c]]
    /\ last' = [ev |-> "cancel", c |-> "", k |-> k,
                flag |-> MapHas(activeLoaders, k), h |-> NoHandle,
                before |-> bergamotTranslators[k]]
    /\ UNCHANGED <<nextId, libVars, trialOK, completed>>
    /\ UNCHANGED callVars

\* ------------------------------------- translator.translate (library)
Awaiting(c, h) == pc[c] \in {"trial", "translate"} /\ tr[c] = h

\* CustomBacking.fetch starts for the next model file: checkAborted passes
FetchBegin(h) ==
    /\ stage[h] = "idle"
    /\ h \notin aborted
    /\ \E c \in Callers : Awaiting(c, h)
    /\ stage' = Put(stage, h, "fetch")
    /\ last' = NoEvent
    /\ UNCHANGED <<coordVars, filesDownloaded, hkey, callVars>>
    /\ UNCHANGED <<obs, trialOK, completed, cancelled>>

\* CustomBacking.fetch returns the file: filesDownloaded++
FetchEnd(h) ==
    /\ stage[h] = "fetch"
    /\ h \notin aborted
    /\ filesDownloaded' = Put(filesDownloaded, h, filesDownloaded[h] + 1)
    /\ stage' = Put(stage, h, IF filesDownloaded[h] + 1 = FilesPerModel
                              THEN "ready" ELSE "idle")
    /\ last' = NoEvent
    /\ UNCHANGED <<coordVars, hkey, callVars>>
    /\ UNCHANGED <<obs, trialOK, completed, cancelled>>

\* translate rejects for a reason other than cancellation (HTTP error,
\* timeout, decompression, worker initialization, the translation itself)
CallFails(c) ==
    LET k == key[c] IN
    /\ pc[c] \in {"trial", "translate"}
    /\ bergamotTranslators' = Rejected(op[c], bergamotTranslators, k)
    /\ EndCall(c, "failed", NoHandle)
    /\ last' = RejectEvent(c, op[c], k, ctrl[c])
    /\ UNCHANGED <<activeLoaders, aborted, nextId, cancels, libVars, op, key, calls>>
    /\ UNCHANGED <<obs, trialOK, completed, cancelled>>

\* checkAborted throws 'Operation aborted by user' in loadModelRegistery or
\* fetch: the translator's controller was aborted and files are missing
CallAborted(c) ==
    LET k == key[c] IN
    /\ pc[c] \in {"trial", "translate"}
    /\ tr[c] \in aborted
    /\ stage[tr[c]] # "ready"
    /\ bergamotTranslators' = Rejected(op[c], bergamotTranslators, k)
    /\ EndCall(c, "aborted", NoHandle)
    /\ last' = RejectEvent(c, op[c], k, ctrl[c])
    /\ UNCHANGED <<activeLoaders, aborted, nextId, cancels, libVars, op, key, calls>>
    /\ UNCHANGED <<obs, trialOK, completed, cancelled>>

\* translate resolves: every model file is loaded.  loadBergamotModel with
\* a progress callback then sleeps 300 + 200 + 200 ms before it returns.
TranslateDone(c) ==
    LET k == key[c]
        h == tr[c] IN
    /\ pc[c] \in {"trial", "translate"}
    /\ stage[h] = "ready"
    /\ IF op[c] = "load" /\ onProg[c]
       THEN SetCaller(c, "finish", "none", h, ctrl[c], sig[c], TRUE)
       ELSE EndCall(c, "ok", h)
    /\ trialOK' = IF op[c] = "load" THEN trialOK \cup {h} ELSE trialOK
    /\ completed' = IF op[c] = "load" /\ ~onProg[c]
                    THEN Put(completed, k, h) ELSE completed
    /\ last' = NoEvent
    /\ UNCHANGED <<coordVars, libVars, op, key, calls, obs, cancelled>>

\* the last timer of loadBergamotModel fires: onProgress(100), return
FinishDone(c) ==
    /\ pc[c] = "finish"
    /\ EndCall(c, "ok", tr[c])
    /\ completed' = Put(completed, key[c], tr[c])
    /\ last' = NoEvent
    /\ UNCHANGED <<coordVars, libVars, op, key, calls, obs, trialOK, cancelled>>

\* =================================================================
\* Progress of one load: getBergamotTranslator, CustomBacking and
\* loadBergamotModel report to the onProgress callback of the call
\* =================================================================

\* value of a variable in a specification that does not follow its part
Unobserved == "unobserved"

\* bounds: observed loadBergamotModel calls in one behaviour, and model files
\* the library fetches during one translate
MaxLoads == 2
MaxFiles == 4

\* lastProg before the callback was called
NoProgress == -1

\* the pairs the observed call is made for: one with the hub, one across it
ProgressPairs == {<<"ja", "en">>, <<"ja", "fr">>}

\* Date.now() at the calls of updateProgress: any time later than 100 ms
\* after the epoch
Clock == {1700000000, 1700000050, 1700000200}

\* keys of data.models in the registry document
PairKeys == {ModelKey(s, t) : s \in Langs, t \in Langs}

\* data.models[pairKey]: no such key, an empty array, an array of models
RegistryData == [PairKeys -> {"absent", "empty", "models"}]

\* truthiness of data.models?.[pairKey] (an empty array is truthy)
Truthy(entry) == entry # "absent"

\* loadModelRegistery: this.isPivot
IsPivot(data, sourceLang, targetLang) ==
    /\ sourceLang # "en"
    /\ targetLang # "en"
    /\ Truthy(data[ModelKey(sourceLang, "en")])
    /\ Truthy(data[ModelKey("en", targetLang)])

\* loadModelRegistery: this.totalFilesEstimate = this.isPivot ? 6 : 3
TotalFilesEstimate(pivot) == IF pivot THEN 6 ELSE 3

Min(a, b) == IF a < b THEN a ELSE b

Max(a, b) == IF a > b THEN a ELSE b

\* Math.round of n / d for n >= 0, d > 0: halves go up
Round(n, d) == (2 * n + d) \div (2 * d)

\* (variant: a clamp that lets the backing report 100)
ClampTo100(x) == Min(100, Max(0, x))

\* Math.min(95, Math.max(0, x))
Clamp(x) == Min(95, Max(0, x))

\* updateProgress: clampedProgress for baseProgress = bn / bd and
\* fileWeight = wn / wd, in exact arithmetic
ClampedProgress(bn, bd, fp, wn, wd) ==
    Clamp(Round(bn * wd * 100 + fp * wn * bd, bd * wd * 100))

\* <<filesDownloaded, totalFilesEstimate, fileProgress>> for which the exact
\* value is a half that the double arithmetic of fetch (85 / 3 and 85 / 6 are
\* not representable) puts just below the half, so that Math.round goes down
RoundsBelowHalf == {<<1, 3, 50>>, <<1, 6, 80>>, <<2, 6, 100>>}

\* fetch: updateProgress(baseProgress, fp, fileAllocation) with
\* baseProgress = 5 + (fd / total) * 85 and fileAllocation = 85 / total
FetchProgressValue(fd, total, fp) ==
    LET exact == ClampedProgress(5 * total + 85 * fd, total, fp, 85, total) IN
    IF <<fd, total, fp>> \in RoundsBelowHalf /\ exact < 95 THEN exact - 1 ELSE exact

\* updateProgress: the throttle lets the call through
ThrottlePasses(lastProgressUpdate, clamped, now) ==
    clamped # lastProgressUpdate \/ now - lastProgressUpdate > 100

\* onProgress(v) of the observed call, on the record s
Report(s, v) ==
    [s EXCEPT !.lastProg = v,
              !.decreased = (s.decreased \/ (s.lastProg # NoProgress /\ v < s.lastProg)),
              !.saw100 = (s.saw100 \/ v = 100)]

\* no call of updateProgress has invoked the callback yet
NoTime == 0

\* a call of updateProgress on the record s that repeats the value of the
\* previous callback less than 100 ms after it
Repeats(s, v, now) ==
    /\ s.calledAt # NoTime
    /\ v = s.lastProgressUpdate
    /\ v = s.lastProg
    /\ now >= s.calledAt
    /\ now - s.calledAt < 100

\* updateProgress with clampedProgress = v at time now
UpdateProgress(s, v, now) ==
    IF ThrottlePasses(s.lastProgressUpdate, v, now)
    THEN [Report(s, v) EXCEPT !.lastProgressUpdate = v,
                              !.calledAt = now,
                              !.repeated = Repeats(s, v, now)]
    ELSE [s EXCEPT !.repeated = FALSE]

\* fields of progress:
\*   ldPc                the await the observed call is suspended at
\*   ldRes               its outcome: "none", "ok", "failed"
\*   ldPair              its <<sourceLang, targetLang>>
\*   ldCached            bergamotTranslators.has(modelKey)
\*   handle              the translator in the cache (the number of the call
\*                       that created it), NoHandle if there is none
\*   ret                 the translator the call returned
\*   record              activeLoaders has a LoadRecord for the pair
\*   loads               number of observed calls started
\*   isPivot, totalFilesEstimate, filesDownloaded, lastProgressUpdate
\*                       the fields of CustomBacking
\*   need                files the library still has to fetch
\*   baseFiles           filesDownloaded when the running fetch began
\*   path, gz            branch of the running fetch, its file is gzipped
\*   fileProgress        last fileProgress the running fetch reported
\*   lastProg            last value passed to onProgress in this call
\*   decreased           onProgress got a value below the one before
\*   saw100              onProgress got 100 in this call
\*   calledAt            Date.now() of the last call of updateProgress that
\*                       invoked onProgress, NoTime if there is none
\*   repeated            the last call of updateProgress invoked onProgress
\*                       although it repeated the previous value within 100 ms
ProgressInit ==
    progress =
        [ldPc |-> "idle", ldRes |-> "none", ldPair |-> <<"ja", "en">>,
         ldCached |-> FALSE, handle |-> NoHandle, ret |-> NoHandle,
         record |-> FALSE, loads |-> 0,
         isPivot |-> FALSE, totalFilesEstimate |-> 3, filesDownloaded |-> 0,
         lastProgressUpdate |-> 0,
         need |-> 0, baseFiles |-> 0, path |-> "none", gz |-> FALSE,
         fileProgress |-> 0,
         lastProg |-> NoProgress, decreased |-> FALSE, saw100 |-> FALSE,
         calledAt |-> NoTime, repeated |-> FALSE]

\* (variant: no 'already loaded' shortcut, every call goes on to
\* getBergamotTranslator and loads again)
ProgressLoadAgain(p) ==
    /\ progress.ldPc = "idle"
    /\ progress.loads < MaxLoads
    /\ progress' = [progress EXCEPT !.loads = @ + 1,
                                    !.ldPair = p,
                                    !.ldPc = "import",
                                    !.ldRes = "none",
                                    !.ret = NoHandle,
                                    !.record = TRUE,
                                    !.ldCached = FALSE,
                                    !.handle = NoHandle,
                                    !.lastProg = NoProgress,
                                    !.decreased = FALSE,
                                    !.saw100 = FALSE]

\* loadBergamotModel with an onProgress callback and a quiet abortSignal:
\* the 'already loaded' shortcut, or on to getBergamotTranslator
ProgressLoad(p) ==
    /\ progress.ldPc = "idle"
    /\ progress.loads < MaxLoads
    /\ progress' =
         IF progress.ldCached /\ progress.ldPair = p
         THEN [progress EXCEPT !.loads = @ + 1,
                               !.ldRes = "ok",
                               !.ret = progress.handle,
                               !.lastProg = 100,
                               !.decreased = FALSE,
                               !.saw100 = TRUE]
         ELSE [progress EXCEPT !.loads = @ + 1,
                               !.ldPair = p,
                               !.ldPc = "import",
                               !.ldRes = "none",
                               !.ret = NoHandle,
                               !.record = TRUE,
                               !.ldCached = FALSE,
                               !.handle = NoHandle,
                               !.lastProg = NoProgress,
                               !.decreased = FALSE,
                               !.saw100 = FALSE]

\* the import resolves: new CustomBacking (field initializers), the translator
\* is cached, onProgress(5); loadBergamotModel then starts translate
ProgressImportDone ==
    /\ progress.ldPc = "import"
    /\ progress' =
         [Report(progress, 5) EXCEPT !.ldPc = "translate",
                                     !.ldCached = TRUE,
                                     !.handle = progress.loads,
                                     !.record = FALSE,
                                     !.isPivot = FALSE,
                                     !.totalFilesEstimate = 3,
                                     !.filesDownloaded = 0,
                                     !.lastProgressUpdate = 0,
                                     !.calledAt = NoTime,
                                     !.repeated = FALSE]

\* translate asks the backing for the registry: loadModelRegistery up to its
\* await fetch(registryUrl), updateProgress(0, 0, 0)
LoadModelRegisteryBegin(now) ==
    /\ progress.ldPc = "translate"
    /\ progress' =
         [UpdateProgress(progress, ClampedProgress(0, 1, 0, 0, 1), now)
             EXCEPT !.ldPc = "registry"]

\* the registry document arrived: updateProgress(5, 100, 0), isPivot,
\* totalFilesEstimate, filesDownloaded = 0; n: the files of the entries
\* the library will fetch
LoadModelRegisteryEnd(data, n, now) ==
    /\ progress.ldPc = "registry"
    /\ progress' =
         [UpdateProgress(progress, ClampedProgress(5, 1, 100, 0, 1), now)
             EXCEPT !.ldPc = "files",
                    !.isPivot = IsPivot(data, progress.ldPair[1], progress.ldPair[2]),
                    !.totalFilesEstimate =
                        TotalFilesEstimate(IsPivot(data, progress.ldPair[1],
                                                   progress.ldPair[2])),
                    !.filesDownloaded = 0,
                    !.need = n]

\* CustomBacking.fetch up to its await fetch(url): baseProgress is computed,
\* updateProgress(baseProgress, 0, fileAllocation)
BackingFetchBegin(now) ==
    /\ progress.ldPc = "files"
    /\ progress.need > 0
    /\ progress' =
         [UpdateProgress(progress,
                         FetchProgressValue(progress.filesDownloaded,
                                            progress.totalFilesEstimate, 0), now)
             EXCEPT !.ldPc = "fetch",
                    !.baseFiles = progress.filesDownloaded,
                    !.path = "wait",
                    !.fileProgress = 0]

\* first fileProgress of a branch: served from cache, streamed with a
\* content-length, or read whole
FirstFileProgress(branch) ==
    IF branch = "cached" THEN 10 ELSE IF branch = "stream" THEN 5 ELSE 30

\* the response arrived: the branch is chosen and reports its first step
BackingFetchResponse(branch, zipped, now) ==
    /\ progress.ldPc = "fetch"
    /\ progress.path = "wait"
    /\ progress' =
         [UpdateProgress(progress,
                         FetchProgressValue(progress.baseFiles,
                                            progress.totalFilesEstimate,
                                            FirstFileProgress(branch)), now)
             EXCEPT !.path = branch,
                    !.gz = zipped,
                    !.fileProgress = FirstFileProgress(branch)]

\* Math.min(90, downloadedBytes / totalBytes * 100) at the chunks that report
ChunkProgress == {25, 50, 90}

\* the fileProgress values a branch may report next
NextFileProgress(branch, zipped, fp) ==
    IF branch = "cached"
    THEN IF fp = 10 THEN {50} ELSE IF fp = 50 /\ zipped THEN {80} ELSE {}
    ELSE IF branch = "stream"
    THEN {v \in ChunkProgress : v > fp} \cup (IF zipped /\ fp < 90 THEN {90} ELSE {})
    ELSE IF fp = 30 /\ zipped THEN {70} ELSE {}

\* a timer, a chunk or the start of decompression: the next report of the fetch
BackingFetchStep(v, now) ==
    /\ progress.ldPc = "fetch"
    /\ v \in NextFileProgress(progress.path, progress.gz, progress.fileProgress)
    /\ progress' =
         [UpdateProgress(progress,
                         FetchProgressValue(progress.baseFiles,
                                            progress.totalFilesEstimate, v), now)
             EXCEPT !.fileProgress = v]

\* the branch has no report left before its last one
FetchComplete(branch, zipped, fp) ==
    IF branch = "cached" THEN fp = (IF zipped THEN 80 ELSE 50)
    ELSE IF branch = "stream" THEN (zipped => fp = 90)
    ELSE fp = (IF zipped THEN 70 ELSE 30)

\* the fetch returns the file: filesDownloaded++ and
\* updateProgress(baseProgress, 100, fileAllocation)
BackingFetchReturn(now) ==
    /\ progress.ldPc = "fetch"
    /\ progress.path \in {"cached", "stream", "fallback"}
    /\ FetchComplete(progress.path, progress.gz, progress.fileProgress)
    /\ progress' =
         [UpdateProgress(progress,
                         FetchProgressValue(progress.baseFiles,
                                            progress.totalFilesEstimate, 100), now)
             EXCEPT !.ldPc = "files",
                    !.filesDownloaded = @ + 1,
                    !.need = @ - 1,
                    !.path = "none",
                    !.fileProgress = 0]

\* translate resolves: loadBergamotModel sleeps 300 ms
ProgressTranslateDone ==
    /\ progress.ldPc = "files"
    /\ progress.need = 0
    /\ progress' = [progress EXCEPT !.ldPc = "sleep300"]

\* the 300 ms timer fires: onProgress(90), sleep 200 ms
ProgressTimer90 ==
    /\ progress.ldPc = "sleep300"
    /\ progress' = [Report(progress, 90) EXCEPT !.ldPc = "sleep200"]

\* the 200 ms timer fires: onProgress(95), sleep 200 ms
ProgressTimer95 ==
    /\ progress.ldPc = "sleep200"
    /\ progress' = [Report(progress, 95) EXCEPT !.ldPc = "sleepLast"]

\* the last timer fires: onProgress(100), return translator
ProgressTimer100 ==
    /\ progress.ldPc = "sleepLast"
    /\ progress' = [Report(progress, 100) EXCEPT !.ldPc = "idle",
                                                 !.ldRes = "ok",
                                                 !.ret = progress.handle]

\* the import or translate rejects (network, HTTP status, checkAborted,
\* decompression, worker): the catch blocks delete the cache entry and rethrow
ProgressFails ==
    /\ progress.ldPc \in {"import", "translate", "registry", "files", "fetch"}
    /\ progress' = [progress EXCEPT !.ldPc = "idle",
                                    !.ldRes = "failed",
                                    !.ldCached = FALSE,
                                    !.handle = NoHandle,
                                    !.record = FALSE,
                                    !.path = "none"]

\* =================================================================
\* Path Resolver: getTranslationPairInfo
\* =================================================================

\* pairKey.split('-') of a key made of two language codes
SplitKey(pairKey) ==
    CHOOSE p \in Langs \X Langs : ModelKey(p[1], p[2]) = pairKey

\* the Map built from data.models: source -> targets, as a set of
\* <<source, target>>; only non-empty arrays of models count
ParsePairs(data) ==
    {SplitKey(k) : k \in {pairKey \in PairKeys : data[pairKey] = "models"}}

\* pairs.get(a)?.includes(b) || false
HasPath(pairs, a, b) == <<a, b>> \in pairs

UnavailableInfo ==
    [available |-> FALSE, isDirect |-> FALSE, isPivot |-> FALSE,
     pivotPath |-> "", modelCount |-> 0]

\* (variant: a direct result that is flagged as a pivot as well)
DirectInfoAlsoPivot ==
    [available |-> TRUE, isDirect |-> TRUE, isPivot |-> TRUE,
     pivotPath |-> "", modelCount |-> 1]

DirectInfo ==
    [available |-> TRUE, isDirect |-> TRUE, isPivot |-> FALSE,
     pivotPath |-> "", modelCount |-> 1]

\* `${source} → ${pivotLang} → ${target}`
PivotPath(source, pivotLang, target) ==
    source \o " → " \o pivotLang \o " → " \o target

PivotInfo(source, target) ==
    [available |-> TRUE, isDirect |-> FALSE, isPivot |-> TRUE,
     pivotPath |-> PivotPath(source, "en", target), modelCount |-> 2]

\* (variant: no check for source === target)
PairInfoNoSameCheck(pairs, source, target) ==
    IF HasPath(pairs, source, target) THEN DirectInfo
    ELSE IF source = "en" \/ target = "en" THEN UnavailableInfo
    ELSE IF HasPath(pairs, source, "en") /\ HasPath(pairs, "en", target)
    THEN PivotInfo(source, target)
    ELSE UnavailableInfo

\* getTranslationPairInfo after `pairs` was obtained
PairInfo(pairs, source, target) ==
    IF source = target THEN UnavailableInfo
    ELSE IF HasPath(pairs, source, target) THEN DirectInfo
    ELSE IF source = "en" \/ target = "en" THEN UnavailableInfo
    ELSE IF HasPath(pairs, source, "en") /\ HasPath(pairs, "en", target)
    THEN PivotInfo(source, target)
    ELSE UnavailableInfo

\* getAllBergamotLanguagePairs: sources whose targets include the hub
ToEnglish(pairs) == {p[1] : p \in {q \in pairs : q[2] = "en"}}

\* targets of the hub
FromEnglish(pairs) == {p[2] : p \in {q \in pairs : q[1] = "en"}}

\* (variant: a target is added whether or not there is a direct path)
PivotPairsNoDirectCheck(pairs) ==
    {p \in ToEnglish(pairs) \X FromEnglish(pairs) :
         p[1] # "en" /\ p[2] # "en" /\ p[1] # p[2]}

\* the two loops that fill pivotPairs, as the set of <<source, target>>
PivotPairs(pairs) ==
    {p \in ToEnglish(pairs) \X FromEnglish(pairs) :
         /\ p[1] # "en"
         /\ p[2] # "en"
         /\ p[1] # p[2]
         /\ ~HasPath(pairs, p[1], p[2])}

\* the object getAllBergamotLanguagePairs returns
AllPairs(pairs) == [direct |-> pairs, pivot |-> PivotPairs(pairs)]

\* a registry document that lists models for exactly these keys
DocOf(keys) == [k \in PairKeys |-> IF k \in keys THEN "models" ELSE "absent"]

\* fields of resolver:
\*   doc                 the registry document both functions read
\*   source, target      the pair they are asked about
\*   info                the result of getTranslationPairInfo
\*   estimate            totalFilesEstimate of a load of the pair
\*   all                 the result of getAllBergamotLanguagePairs
\*   applied             which of them has been computed
ResolverStart(doc, source, target) ==
    [doc |-> doc, source |-> source, target |-> target,
     info |-> UnavailableInfo, estimate |-> 3,
     all |-> [direct |-> {}, pivot |-> {}], applied |-> {}]

\* getTranslationPairInfo(source, target) on the registry document
ApplyPairInfo ==
    /\ "info" \notin resolver.applied
    /\ resolver' =
         [resolver EXCEPT !.info = PairInfo(ParsePairs(resolver.doc),
                                            resolver.source, resolver.target),
                          !.applied = @ \cup {"info"}]

\* loadModelRegistery of a load of the pair on the same document
ApplyEstimate ==
    /\ "estimate" \notin resolver.applied
    /\ resolver' =
         [resolver EXCEPT !.estimate =
                              TotalFilesEstimate(IsPivot(resolver.doc, resolver.source,
                                                         resolver.target)),
                          !.applied = @ \cup {"estimate"}]

\* getAllBergamotLanguagePairs() on the registry document
ApplyAll ==
    /\ "all" \notin resolver.applied
    /\ resolver' =
         [resolver EXCEPT !.all = AllPairs(ParsePairs(resolver.doc)),
                          !.applied = @ \cup {"all"}]

\* =================================================================
\* Registry: getAvailableBergamotLanguagePairs and its cache
\* =================================================================

\* retries: number = 3
Retries == 3

\* the documents the registry endpoint serves: the two-leg registry, the same
\* with a direct model, and a document without a usable pair
ServedData ==
    {DocOf({ModelKey("ja", "en"), ModelKey("en", "fr")}),
     DocOf({ModelKey("ja", "en"), ModelKey("en", "fr"), ModelKey("ja", "fr")}),
     DocOf({})}

\* the pairs getTranslationPairInfo is asked about
Queries == {<<"ja", "fr">>, <<"ja", "en">>, <<"ja", "ja">>}

\* new Map()
EmptyMap == {}

NoRegEvent ==
    [ev |-> "none", c |-> "", before |-> << >>, succ |-> FALSE]

\* the step just taken, with the cache as it was before the step
RegEvent(e, c) ==
    [ev |-> e, c |-> c, before |-> registry.availableLanguagePairsCache,
     succ |-> registry.succeeded]

\* a caller that has not called yet
NoRegistryCall ==
    [pc |-> "idle", op |-> "pairs", query |-> <<"ja", "en">>, attempt |-> 0,
     fetches |-> 0, outcomes |-> << >>, res |-> "none", ret |-> EmptyMap,
     info |-> UnavailableInfo]

\* fields of registry:
\*   clientSide          typeof window !== 'undefined'
\*   availableLanguagePairsCache   << >> for null, <<pairs>> for a Map
\*   call[c]             the call of caller c:
\*     pc                  "idle", "fetch" (await fetch) or "backoff" (sleep)
\*     op, query           "pairs" or "info" with its <<source, target>>
\*     attempt             the loop variable
\*     fetches             requests this call has sent
\*     outcomes            what each of its requests came to
\*     res, ret, info      "returned" or "raised", the Map, the pair info
\*   succeeded           a fetch succeeded since the cache was last cleared
\*   last                the step just taken
RegistryIdle(client) ==
    [clientSide |-> client,
     availableLanguagePairsCache |-> << >>,
     call |-> [c \in Callers |-> NoRegistryCall],
     succeeded |-> FALSE,
     last |-> NoRegEvent]

\* (variant: the cache is never consulted)
CacheHitNever(cache) == FALSE

\* if (availableLanguagePairsCache)
CacheHit(cache) == cache # << >>

\* (variant: the result is returned without being cached)
StoreNothing(cache, pairs) == cache

\* availableLanguagePairsCache = pairs
StoreCache(cache, pairs) == <<pairs>>

\* (variant: an abort is handled like any other error)
IsAbortNever(kind) == FALSE

\* error.name === 'AbortError'
IsAbort(kind) == kind = "timeout"

\* (variant: the last error is rethrown after the loop)
AfterLoopThrows(c) == "raised"

\* after the loop: return new Map()
AfterLoop(c) == "returned"

\* if (attempt < retries - 1): sleep, then the next iteration
Retry(a, retries) == a < retries - 1

\* getAvailableBergamotLanguagePairs settles with `pairs` (status "returned")
\* or rejects; getTranslationPairInfo goes on to compute its result; r is
\* the record of the call
RegSettle(r, status, pairs) ==
    [r EXCEPT !.pc = "idle",
              !.res = status,
              !.ret = pairs,
              !.info = IF r.op = "info" /\ status = "returned"
                       THEN PairInfo(pairs, r.query[1], r.query[2])
                       ELSE @]

\* a call of getAvailableBergamotLanguagePairs (o = "pairs") or of
\* getTranslationPairInfo (o = "info", q = <<source, target>>), up to the
\* first await
RegistryCall(c, o, q) ==
    /\ registry.call[c].pc = "idle"
    /\ LET r == [registry.call[c] EXCEPT !.op = o,
                                         !.query = q,
                                         !.outcomes = << >>,
                                         !.attempt = 0]
           cache == registry.availableLanguagePairsCache
       IN  registry' =
             [registry EXCEPT
                !.last = RegEvent("call", c),
                !.call[c] =
                    IF ~registry.clientSide
                    THEN RegSettle([r EXCEPT !.fetches = 0], "returned", EmptyMap)
                    ELSE IF CacheHit(cache)
                    THEN RegSettle([r EXCEPT !.fetches = 0], "returned", cache[1])
                    ELSE [r EXCEPT !.fetches = 1, !.pc = "fetch", !.res = "none"]]

\* the catch block for an error of kind "error" or "timeout"
RegistryCatch(c, kind) ==
    LET r == [registry.call[c] EXCEPT !.outcomes = Append(@, kind)] IN
    registry' =
        [registry EXCEPT
           !.last = RegEvent("settle", c),
           !.call[c] = IF IsAbort(kind) \/ ~Retry(r.attempt, Retries)
                       THEN RegSettle(r, AfterLoop(c), EmptyMap)
                       ELSE [r EXCEPT !.pc = "backoff"]]

\* fetch(apiUrl) rejects (network error, or the 10 s timer aborts it), or
\* the response is not ok or not a registry document
RegistryFetchFails(c, kind) ==
    /\ registry.call[c].pc = "fetch"
    /\ RegistryCatch(c, kind)

\* the response is ok and carries a document with a "models" object
RegistryFetchResponds(c, data) ==
    /\ registry.call[c].pc = "fetch"
    /\ IF ParsePairs(data) = {}
       THEN RegistryCatch(c, "error")
       ELSE registry' =
              [registry EXCEPT
                 !.availableLanguagePairsCache = StoreCache(@, ParsePairs(data)),
                 !.succeeded = TRUE,
                 !.last = RegEvent("settle", c),
                 !.call[c] = RegSettle([@ EXCEPT !.outcomes = Append(@, "ok")],
                                       "returned", ParsePairs(data))]

\* the backoff timer (1 s, 2 s) fires: attempt++, the next fetch(apiUrl)
RegistryBackoffEnds(c) ==
    /\ registry.call[c].pc = "backoff"
    /\ registry' =
         [registry EXCEPT !.last = RegEvent("retry", c),
                          !.call[c] = [@ EXCEPT !.pc = "fetch",
                                                !.attempt = @ + 1,
                                                !.fetches = @ + 1]]

clearBergamotLanguagePairsCache ==
    registry' = [registry EXCEPT !.availableLanguagePairsCache = << >>,
                                 !.succeeded = FALSE,
                                 !.last = RegEvent("clear", "")]

\* =================================================================
\* RPC Transport: CustomBacking.loadWorker, its call function and the
\* message listener of the worker
\* =================================================================

\* bounds: calls made through one transport, and messages of the worker that
\* wait in the event queue
MaxRpc == 3
MaxInFlight == 1

\* an argument that is an object: (this as any).options
Options == "{}"

\* String(arg)
StringOf(arg) == IF arg = Options THEN "[object Object]" ELSE arg

\* strs.join(', ')
RECURSIVE Join(_)
Join(strs) ==
    IF Len(strs) = 0 THEN ""
    ELSE IF Len(strs) = 1 THEN strs[1]
    ELSE strs[1] \o ", " \o Join(Tail(strs))

\* args.map(arg => String(arg))
MapString(args) == [i \in DOMAIN args |-> StringOf(args[i])]

\* callsite.message: `${name}(${args.map(arg => String(arg)).join(', ')})`
CallsiteMessage(name, args) == name \o "(" \o Join(MapString(args)) \o ")"

\* (variant: the remote message is replaced by the description)
ErrorMessageLocalOnly(remote, callsite) == "(response to " \o callsite \o ")"

\* error.message + ` (response to ${callsite?.message || 'unknown'})`
ErrorMessage(remote, callsite) ==
    remote \o " (response to " \o (IF callsite = "" THEN "unknown" ELSE callsite) \o ")"

\* the Error thrown by loadWorker when the initialize call is rejected
InitFailureMessage(message) ==
    "Failed to initialize Bergamot worker: "
        \o (IF message = "" THEN "Unknown error" ELSE message)
        \o ". Make sure the worker files (translator-worker.js, "
        \o "bergamot-translator-worker.wasm) are accessible at /bergamot-worker/."

\* the calls made through the exports proxy once loadWorker has returned
ProxyCalls == {<<"translate", <<"ja", "test">> >>, <<"delete", << >> >>}

\* a field of event.data that is absent
Undefined == "undefined"

NoError == [defined |-> FALSE, message |-> ""]

RemoteError(message) == [defined |-> TRUE, message |-> message]

\* event.data of the messages the worker may send: any id (0 is never
\* assigned), with a result, an error, or both
WorkerData ==
    [id : 0..MaxRpc,
     result : {Undefined, "done"},
     error : {NoError, RemoteError("boom")}]

\* new Map()
EmptyPending == [id \in {} |-> [call |-> 0, callsite |-> ""]]

\* pending.set(id, entry)
PendingSet(pending, id, entry) ==
    [i \in DOMAIN pending \cup {id} |-> IF i = id THEN entry ELSE pending[i]]

\* pending.delete(id)
PendingDelete(pending, id) == [i \in DOMAIN pending \ {id} |-> pending[i]]

\* fields of transport:
\*   serial              let serial
\*   pending             the Map id -> {accept, reject, callsite}: the call
\*                       whose promise the entry settles, and callsite.message
\*   log                 the calls in the order they were made: id, name, args,
\*                       state of the promise ("pending", "accepted",
\*                       "rejected"), the value or message it settled with,
\*                       and how often accept or reject was called for it
\*   posted              the messages given to worker.postMessage, each with
\*                       whether pending had its id when it was posted
\*   inbox               messages of the worker that wait in the event queue
\*   init                loadWorker: "none" (not called), "waiting" (await
\*                       call('initialize')), "loaded" (returned), "failed"
\*   failure             message of the Error loadWorker threw
\*   last                the step just taken
TransportInit ==
    transport =
        [serial |-> 0, pending |-> EmptyPending, log |-> << >>, posted |-> << >>,
         inbox |-> << >>, init |-> "none", failure |-> "",
         last |-> [ev |-> "none", id |-> 0]]

\* (variant: the id of a call is the serial without the increment)
NextSerialSame(serial) == IF serial = 0 THEN 1 ELSE serial

\* const id = ++serial
NextSerial(serial) == serial + 1

\* pending.set(...) comes before worker.postMessage(...): the table the
\* worker's message is posted under is the one after the set
RecordedAtPost(before, after, id) == id \in DOMAIN after

\* call(name, ...args): the executor of the promise
Call(t, name, args) ==
    LET id == NextSerial(t.serial)
        entry == [call |-> Len(t.log) + 1, callsite |-> CallsiteMessage(name, args)]
        table == PendingSet(t.pending, id, entry)
    IN  [t EXCEPT !.serial = id,
                  !.pending = table,
                  !.log = Append(@, [id |-> id, name |-> name, args |-> args,
                                     state |-> "pending", value |-> "",
                                     settled |-> 0]),
                  !.posted = Append(@, [id |-> id, name |-> name, args |-> args,
                                        recorded |-> RecordedAtPost(t.pending, table, id)]),
                  !.last = [ev |-> "call", id |-> id]]

\* loadWorker up to `await call('initialize', this.options)`
LoadWorker ==
    /\ transport.init = "none"
    /\ transport' = [Call(transport, "initialize", <<Options>>) EXCEPT !.init = "waiting"]

\* a method of exports is called: (...args) => call(name, ...args)
ProxyCall(name, args) ==
    /\ transport.init = "loaded"
    /\ transport.serial < MaxRpc
    /\ transport' = Call(transport, name, args)

\* the worker posts a message to the page
WorkerPosts(data) ==
    /\ transport.init # "none"
    /\ Len(transport.inbox) < MaxInFlight
    /\ transport' = [transport EXCEPT !.inbox = Append(@, data),
                                      !.last = [ev |-> "post", id |-> data.id]]

\* the continuation of loadWorker after the promise of call n settled
AfterSettle(t, n, state, value) ==
    IF t.init = "waiting" /\ t.log[n].name = "initialize"
    THEN IF state = "accepted"
         THEN [t EXCEPT !.init = "loaded"]
         ELSE [t EXCEPT !.init = "failed", !.failure = InitFailureMessage(value)]
    ELSE t

\* accept(result) or reject(err) of the entry of call n
Settle(t, n, state, value) ==
    AfterSettle([t EXCEPT !.log[n].state = state, !.log[n].value = value,
                          !.log[n].settled = @ + 1],
                n, state, value)

\* (variant: a message with an unknown id rejects every pending call)
OnUnknownRejectsAll(t, data) ==
    [t EXCEPT !.pending = EmptyPending,
              !.log = [n \in DOMAIN t.log |->
                         IF t.log[n].state = "pending"
                         THEN [t.log[n] EXCEPT !.state = "rejected"]
                         ELSE t.log[n]]]

\* if (!pending.has(id)) { console.debug(...); return; }
OnUnknown(t, data) == t

\* (variant: the entry stays in the table after its response)
TakeEntryKeeps(pending, id) == pending

\* pending.delete(id)
TakeEntry(pending, id) == PendingDelete(pending, id)

\* the 'message' listener for event.data = data
OnMessageData(t, data) ==
    IF data.id \notin DOMAIN t.pending
    THEN [OnUnknown(t, data) EXCEPT !.last = [ev |-> "dropped", id |-> data.id]]
    ELSE LET entry == t.pending[data.id]
             t1 == [t EXCEPT !.pending = TakeEntry(@, data.id),
                             !.last = [ev |-> "settled", id |-> data.id]]
         IN  IF data.error.defined
             THEN Settle(t1, entry.call, "rejected",
                         ErrorMessage(data.error.message, entry.callsite))
             ELSE Settle(t1, entry.call, "accepted", data.result)

\* the event loop delivers the oldest message of the worker
OnMessage ==
    /\ transport.inbox # << >>
    /\ transport' = [OnMessageData(transport, Head(transport.inbox))
                        EXCEPT !.inbox = Tail(transport.inbox)]

\* (variant: an error event rejects every pending call)
OnErrorRejectsAll(t) ==
    [t EXCEPT !.pending = EmptyPending,
              !.log = [n \in DOMAIN t.log |->
                         IF t.log[n].state = "pending"
                         THEN [t.log[n] EXCEPT !.state = "rejected",
                                               !.value = "Worker error",
                                               !.settled = @ + 1]
                         ELSE t.log[n]]]

\* the listeners of 'error' and 'messageerror': console.error, and
\* this.onerror for 'error'; neither can reach `pending`, a local of
\* loadWorker
OnError(t) == t

\* the worker raises an 'error' event
WorkerError ==
    /\ transport.init # "none"
    /\ transport' = [OnError(transport) EXCEPT !.last = [ev |-> "error", id |-> 0]]

\* a message of the worker cannot be deserialized: 'messageerror'
WorkerMessageError ==
    /\ transport.init # "none"
    /\ transport' = [OnError(transport) EXCEPT !.last = [ev |-> "messageerror", id |-> 0]]

\* =================================================================
\* Failures of one loadBergamotModel call: the checks of the caller's token
\* and of the controller, the errors of the environment, and the error the
\* call is rejected with
\* =================================================================

\* str.includes(part)
Contains(str, part) ==
    \E i \in 1..(Len(str) - Len(part) + 1) : SubSeq(str, i, i + Len(part) - 1) = part

\* the url of a model file
FileUrl == "https://storage.googleapis.com/models/ja-en/model.bin.gz"

\* throw new Error('Operation aborted')
AbortedMessage == "Operation aborted"

\* checkAborted: throw new Error('Operation aborted by user')
AbortedByUserMessage == "Operation aborted by user"

\* (variant: the error for an aborted fetch says 'aborted')
CancelledMessageAborted == "Model download aborted by user"

\* throw new Error('Model download cancelled by user')
CancelledMessage == "Model download cancelled by user"

CorsMessage(url) ==
    "CORS or network error fetching " \o url
        \o ". The file may not be accessible from this origin."

CouldNotFetchMessage(url, message) ==
    "Could not fetch " \o url \o ": " \o (IF message = "" THEN "Unknown error" ELSE message)

\* `HTTP ${response.status}: ${response.statusText} for ${url}`
HttpMessage(status, statusText, url) ==
    "HTTP " \o status \o ": " \o statusText \o " for " \o url

GzipMessage ==
    "Gzip decompression not supported. Please use a modern browser "
        \o "(Chrome 80+, Firefox 113+, Safari 16.4+)."

\* what the library may make of a rejection of backing.fetch
LibraryFetchMessage == "Could not fetch model.bin.gz for ja->en model"

\* loadBergamotModel: the error that replaces a failure of the trial
WrapMessage(sourceLang, targetLang, message) ==
    "Bergamot model for " \o sourceLang \o "-" \o targetLang
        \o " is not available or failed to load: " \o message

\* e.message.includes('aborted')
IsAbortMessage(message) == Contains(message, "aborted")

\* what rejects inside the try block of CustomBacking.fetch, as name and
\* message: fetch() or a read of the body (network, the 120 s timer aborting
\* the request), a response that is not ok, decompressGzip
FetchErrors ==
    {[name |-> "TypeError", message |-> "Failed to fetch", cause |-> "network"],
     [name |-> "TypeError", message |-> "network error", cause |-> "network"],
     [name |-> "AbortError", message |-> "signal is aborted without reason",
      cause |-> "timeout"],
     [name |-> "AbortError", message |-> "The user aborted a request.",
      cause |-> "timeout"],
     [name |-> "Error", message |-> HttpMessage("404", "Not Found", FileUrl),
      cause |-> "http"],
     [name |-> "Error", message |-> HttpMessage("503", "", FileUrl), cause |-> "http"],
     [name |-> "Error", message |-> GzipMessage, cause |-> "gzip"]}

\* messages of errors that come from outside the module: the dynamic import,
\* the registry request, the worker
EnvMessages == {"Failed to fetch", "Aborted(OOM)", "boom", ""}

\* the catch block of CustomBacking.fetch: the message of the error it throws
FetchCatch(controllerAborted, fetchError, url) ==
    IF controllerAborted THEN AbortedByUserMessage
    ELSE IF fetchError.name = "AbortError" \/ controllerAborted THEN CancelledMessage
    ELSE IF Contains(fetchError.message, "CORS")
              \/ Contains(fetchError.message, "Failed to fetch")
    THEN CorsMessage(url)
    ELSE CouldNotFetchMessage(url, fetchError.message)

\* fields of outcome:
\*   pc                  "idle", "wait" (the wait loop), "import", "registry"
\*                       (translate waits for loadModelRegistery), "files"
\*                       (translate goes on), "done"
\*   signal              abortSignal.aborted of the caller
\*   controllerAborted   controller.signal.aborted
\*   handler             abortHandler is registered on the caller's signal
\*   record              activeLoaders has the LoadRecord of this call
\*   other               activeLoaders has the LoadRecord of another call
\*   res                 "none", "ok", "rejected"
\*   message, unwrapped  the error the call was rejected with: its message,
\*                       and that it is the error as first thrown
\*   observed            a check of the token or of the controller found it
\*                       aborted
\*   cause               what made the call fail
OutcomeInit ==
    outcome =
        [pc |-> "idle", signal |-> FALSE, controllerAborted |-> FALSE,
         handler |-> FALSE, record |-> FALSE, other |-> FALSE,
         res |-> "none", message |-> "", unwrapped |-> FALSE,
         observed |-> FALSE, cause |-> "none"]

\* an error leaves loadBergamotModel outside its inner try block
Rethrow(o, message, cause, seen) ==
    [o EXCEPT !.pc = "done", !.res = "rejected", !.message = message,
              !.unwrapped = TRUE, !.cause = cause, !.observed = seen,
              !.handler = FALSE, !.record = FALSE]

\* translate rejected with `message`: the inner catch of loadBergamotModel
TrialCatch(o, message, cause, seen) ==
    [o EXCEPT !.pc = "done", !.res = "rejected",
              !.message = IF IsAbortMessage(message) THEN message
                          ELSE WrapMessage("ja", "en", message),
              !.unwrapped = IsAbortMessage(message),
              !.cause = cause, !.observed = seen]

\* getBergamotTranslator from `new AbortController()` to the await import
Register(o) ==
    [o EXCEPT !.pc = "import", !.handler = TRUE, !.record = TRUE]

\* loadBergamotModel past getBergamotTranslator: the check of line 1039, then
\* translator.translate is called
AfterGet(o) ==
    IF o.signal
    THEN Rethrow(o, AbortedMessage, "cancel", TRUE)
    ELSE [o EXCEPT !.pc = "registry", !.handler = FALSE, !.record = FALSE]

\* loadBergamotModel on a cache miss up to the first await; fired: the token
\* has fired before the call; busy: another call has a LoadRecord for the pair
OutcomeLoad(fired, busy) ==
    /\ outcome.pc = "idle"
    /\ outcome' =
         IF fired
         THEN Rethrow([outcome EXCEPT !.signal = TRUE], AbortedMessage, "cancel", TRUE)
         ELSE IF busy
         THEN [outcome EXCEPT !.pc = "wait", !.other = TRUE]
         ELSE Register(outcome)

\* the caller's token fires
OutcomeSignalFires ==
    /\ outcome.pc \in {"wait", "import", "registry", "files"}
    /\ ~outcome.signal
    /\ outcome' = [outcome EXCEPT !.signal = TRUE,
                                  !.controllerAborted = @ \/ outcome.handler]

\* cancelBergamotModelLoad for the pair: the record of this call, or of the
\* call this one waits for
OutcomeCancel ==
    /\ outcome.pc \in {"wait", "import", "registry", "files"}
    /\ outcome.record \/ outcome.other
    /\ outcome' = [outcome EXCEPT !.controllerAborted = @ \/ outcome.record,
                                  !.record = FALSE,
                                  !.other = FALSE]

\* the other load retires its record
OutcomeOtherEnds ==
    /\ outcome.pc = "wait"
    /\ outcome.other
    /\ outcome' = [outcome EXCEPT !.other = FALSE]

\* a wake-up of the wait loop that leaves it; cached: the other load left
\* its translator in the cache
OutcomeWaitWake(cached) ==
    /\ outcome.pc = "wait"
    /\ cached \/ ~outcome.other \/ outcome.signal
    /\ outcome' =
         IF cached THEN AfterGet(outcome)
         ELSE IF outcome.signal THEN Rethrow(outcome, AbortedMessage, "cancel", TRUE)
         ELSE Register(outcome)

\* the import resolves: the translator is returned
OutcomeImportDone ==
    /\ outcome.pc = "import"
    /\ outcome' = AfterGet(outcome)

\* the import rejects: both catch blocks rethrow the error
OutcomeImportFails(message) ==
    /\ outcome.pc = "import"
    /\ outcome' = Rethrow(outcome, message, "import", FALSE)

\* loadModelRegistery: checkAborted, the request, checkAborted
OutcomeRegistry(ok, message) ==
    /\ outcome.pc = "registry"
    /\ outcome' =
         IF outcome.controllerAborted
         THEN TrialCatch(outcome, AbortedByUserMessage, "cancel", TRUE)
         ELSE IF ok THEN [outcome EXCEPT !.pc = "files"]
         ELSE TrialCatch(outcome, message, "registry", FALSE)

\* CustomBacking.fetch rejects; wrapped: the library replaces the error by
\* one of its own
OutcomeFetchFails(fetchError, wrapped) ==
    /\ outcome.pc = "files"
    /\ LET thrown == FetchCatch(outcome.controllerAborted, fetchError, FileUrl) IN
       outcome' = TrialCatch(outcome,
                             IF wrapped THEN LibraryFetchMessage ELSE thrown,
                             IF outcome.controllerAborted THEN "cancel"
                             ELSE fetchError.cause,
                             outcome.controllerAborted)

\* loadWorker throws: the worker answered initialize with an error
OutcomeWorkerFails(remote) ==
    /\ outcome.pc = "files"
    /\ outcome' =
         TrialCatch(outcome,
                    InitFailureMessage(ErrorMessage(remote,
                                                    CallsiteMessage("initialize",
                                                                    <<Options>>))),
                    "worker", FALSE)

\* the worker answers the translate call with an error
OutcomeTrialFails(remote) ==
    /\ outcome.pc = "files"
    /\ outcome' =
         TrialCatch(outcome,
                    ErrorMessage(remote, CallsiteMessage("translate", <<Options>>)),
                    "trial", FALSE)

\* translate resolves and loadBergamotModel returns the translator
OutcomeTrialDone ==
    /\ outcome.pc = "files"
    /\ outcome' = [outcome EXCEPT !.pc = "done", !.res = "ok"]

\* =================================================================
\* Registry response: what getAvailableBergamotLanguagePairs makes of
\* the JSON document it received
\* =================================================================

\* keys of data.models in a response, in the order of Object.entries: two
\* pairs, a key without '-', one without target, one without source, and a
\* key of three parts
RawKeys == <<"ja-en", "en-fr", "jaen", "ja-", "-en", "zh-Hant-en">>

RawKeySet == {RawKeys[i] : i \in DOMAIN RawKeys}

\* data.models[key]: no such key, a non-empty array, an empty array, a
\* value that is not an array
EntryValues == {"absent", "models", "empty", "other"}

\* index of the first '-' of str, 0 if there is none
FirstDash(str) ==
    LET at == {i \in 1..Len(str) : SubSeq(str, i, i) = "-"} IN
    IF at = {} THEN 0 ELSE CHOOSE i \in at : \A j \in at : i <= j

\* str.split('-')
RECURSIVE Split(_)
Split(str) ==
    LET i == FirstDash(str) IN
    IF i = 0
    THEN <<str>>
    ELSE <<SubSeq(str, 1, i - 1)>> \o Split(SubSeq(str, i + 1, Len(str)))

\* const [source, target] = pairKey.split('-')
Destructure(parts) ==
    [source |-> parts[1],
     target |-> IF Len(parts) >= 2 THEN parts[2] ELSE Undefined]

\* a string, or undefined, used as a condition
TruthyPart(x) == x # "" /\ x # Undefined

\* source && target && Array.isArray(models) && models.length > 0
TakesEntry(pairKey, models) ==
    LET st == Destructure(Split(pairKey)) IN
    TruthyPart(st.source) /\ TruthyPart(st.target) /\ models = "models"

\* Object.entries(data.models)
Entries(models) == SelectSeq(RawKeys, LAMBDA k : models[k] # "absent")

\* the loop over the entries, from entry n on: pairs.get(source).push(target).
\* The Map is written as the sequence of its <<source, target>> in the order
\* of the pushes
RECURSIVE ParseFrom(_, _, _)
ParseFrom(models, entries, n) ==
    IF n > Len(entries)
    THEN << >>
    ELSE LET k == entries[n]
             st == Destructure(Split(k)) IN
         (IF TakesEntry(k, models[k]) THEN << <<st.source, st.target>> >> ELSE << >>)
             \o ParseFrom(models, entries, n + 1)

ParseModels(models) == ParseFrom(models, Entries(models), 1)

\* pairs.size
MapSize(pairs) == Cardinality({pairs[i][1] : i \in DOMAIN pairs})

NoModels == [k \in RawKeySet |-> "absent"]

\* the values of data.models: every choice of absent, empty and non-empty
\* lists, and two objects with a value that is no list
ModelsObjects ==
    [RawKeySet -> EntryValues \ {"other"}]
        \cup {[NoModels EXCEPT !["ja-en"] = "other"],
              [NoModels EXCEPT !["ja-en"] = "other", !["en-fr"] = "models"]}

\* what response.json() resolves with: a value that is no object, an object
\* without a usable "models" field, or an object with data.models
Responses ==
    {[shape |-> "notObject", models |-> NoModels],
     [shape |-> "noModels", models |-> NoModels]}
        \cup {[shape |-> "object", models |-> m] : m \in ModelsObjects}

\* the validation of lines 184-190 passes
ValidShape(data) == data.shape = "object"

\* fields of parse:
\*   pc                  "idle", "fetch" (await fetch / json) or "backoff"
\*   attempt             the loop variable
\*   availableLanguagePairsCache   << >> for null, <<pairs>> for a Map
\*   data                the last document response.json() resolved with
\*   parsed              the document the cached Map was made of
\*   last                the step just taken: "none", "call", "fails",
\*                       "response" or "retry"
\*   res, ret            "returned" and the Map of the call that returned last
ParseInit ==
    parse = [pc |-> "idle", attempt |-> 0,
             availableLanguagePairsCache |-> << >>,
             data |-> [shape |-> "notObject", models |-> NoModels],
             parsed |-> [shape |-> "notObject", models |-> NoModels],
             last |-> "none", res |-> "none", ret |-> << >>]

\* getAvailableBergamotLanguagePairs in a browser, up to the first await
ParseCall ==
    /\ parse.pc = "idle"
    /\ parse' =
         IF CacheHit(parse.availableLanguagePairsCache)
         THEN [parse EXCEPT !.res = "returned",
                            !.ret = parse.availableLanguagePairsCache[1],
                            !.last = "call"]
         ELSE [parse EXCEPT !.pc = "fetch", !.attempt = 0, !.res = "none",
                            !.ret = << >>, !.last = "call"]

\* the catch block on the record s: break or last attempt -> return new
\* Map(), otherwise sleep
ParseCatch(s, kind) ==
    IF IsAbort(kind) \/ ~Retry(s.attempt, Retries)
    THEN [s EXCEPT !.pc = "idle", !.res = AfterLoop("A"), !.ret = << >>]
    ELSE [s EXCEPT !.pc = "backoff"]

\* fetch rejects, the 10 s timer aborts it, the response is not ok, or
\* response.json() rejects
ParseFetchFails(kind) ==
    /\ parse.pc = "fetch"
    /\ parse' = ParseCatch([parse EXCEPT !.last = "fails"], kind)

\* response.json() resolves with data: validation, the loop over the
\* entries, the size check, and the cache is set
ParseResponds(data) ==
    LET pairs == ParseModels(data.models) IN
    /\ parse.pc = "fetch"
    /\ parse' =
         IF ~ValidShape(data) \/ MapSize(pairs) = 0
         THEN ParseCatch([parse EXCEPT !.data = data, !.last = "response"], "error")
         ELSE [parse EXCEPT !.data = data,
                            !.parsed = data,
                            !.last = "response",
                            !.availableLanguagePairsCache = StoreCache(@, pairs),
                            !.pc = "idle",
                            !.res = "returned",
                            !.ret = pairs]

\* the backoff timer fires: attempt++, the next fetch
ParseBackoffEnds ==
    /\ parse.pc = "backoff"
    /\ parse' = [parse EXCEPT !.pc = "fetch", !.attempt = @ + 1, !.last = "retry"]

\* ------------------------------------------------------ specification
\* the state after the module was evaluated, for the specifications of the
\* Loader Coordinator: they follow neither the progress of one call, nor the
\* registry cache, nor the resolver
Init ==
    /\ LoaderInit
    /\ progress = Unobserved
    /\ registry = Unobserved
    /\ resolver = Unobserved
    /\ transport = Unobserved
    /\ outcome = Unobserved
    /\ parse = Unobserved

otherThanLoader == <<progress, registry, resolver, transport, outcome, parse>>
otherThanProgress == <<loaderVars, registry, resolver, transport, outcome, parse>>
otherThanRegistry == <<loaderVars, progress, resolver, transport, outcome, parse>>
otherThanResolver == <<loaderVars, progress, registry, transport, outcome, parse>>
otherThanTransport == <<loaderVars, progress, registry, resolver, outcome, parse>>
otherThanOutcome == <<loaderVars, progress, registry, resolver, transport, parse>>
otherThanParse == <<loaderVars, progress, registry, resolver, transport, outcome>>

\* The Loader Coordinator
Next ==
    \/ \E c \in Callers, p \in LangPairs, a \in BOOLEAN, g \in BOOLEAN :
           loadBergamotModel(c, p[1], p[2], a, g) /\ UNCHANGED otherThanLoader
    \/ \E c \in Callers, p \in LangPairs, a \in BOOLEAN :
           translateWithBergamot(c, p[1], p[2], a) /\ UNCHANGED otherThanLoader
    \/ \E p \in LangPairs :
           cancelBergamotModelLoad(p[1], p[2]) /\ UNCHANGED otherThanLoader
    \/ \E c \in Callers : WaitWake(c) /\ UNCHANGED otherThanLoader
    \/ \E c \in Callers : ImportDone(c) /\ UNCHANGED otherThanLoader
    \/ \E c \in Callers : ImportFails(c) /\ UNCHANGED otherThanLoader
    \/ \E c \in Callers : AbortSignalFires(c) /\ UNCHANGED otherThanLoader
    \/ \E h \in Handles : FetchBegin(h) /\ UNCHANGED otherThanLoader
    \/ \E h \in Handles : FetchEnd(h) /\ UNCHANGED otherThanLoader
    \/ \E c \in Callers : CallFails(c) /\ UNCHANGED otherThanLoader
    \/ \E c \in Callers : CallAborted(c) /\ UNCHANGED otherThanLoader
    \/ \E c \in Callers : TranslateDone(c) /\ UNCHANGED otherThanLoader
    \/ \E c \in Callers : FinishDone(c) /\ UNCHANGED otherThanLoader

Spec == Init /\ [][Next]_vars

\* Loads only, in an environment without cancellation and without failures:
\* every timer fires, the import resolves and every fetch returns.
NextLoads ==
    \/ \E c \in Callers, p \in LangPairs, g \in BOOLEAN :
           loadBergamotModel(c, p[1], p[2], FALSE, g) /\ UNCHANGED otherThanLoader
    \/ \E c \in Callers : WaitWake(c) /\ UNCHANGED otherThanLoader
    \/ \E c \in Callers : ImportDone(c) /\ UNCHANGED otherThanLoader
    \/ \E h \in Handles : FetchBegin(h) /\ UNCHANGED otherThanLoader
    \/ \E h \in Handles : FetchEnd(h) /\ UNCHANGED otherThanLoader
    \/ \E c \in Callers : TranslateDone(c) /\ UNCHANGED otherThanLoader
    \/ \E c \in Callers : FinishDone(c) /\ UNCHANGED otherThanLoader

SpecLoads == Init /\ [][NextLoads]_vars /\ WF_vars(NextLoads)

\* One caller's loads with a progress callback
\* Date.now() does not run backwards between two calls of updateProgress
Later == {now \in Clock : now >= progress.calledAt}

NextProgress ==
    \/ \E p \in ProgressPairs : ProgressLoad(p) /\ UNCHANGED otherThanProgress
    \/ ProgressImportDone /\ UNCHANGED otherThanProgress
    \/ \E now \in Later : LoadModelRegisteryBegin(now) /\ UNCHANGED otherThanProgress
    \/ \E data \in ServedData, n \in 1..MaxFiles, now \in Later :
           LoadModelRegisteryEnd(data, n, now) /\ UNCHANGED otherThanProgress
    \/ \E now \in Later : BackingFetchBegin(now) /\ UNCHANGED otherThanProgress
    \/ \E branch \in {"cached", "stream", "fallback"}, zipped \in BOOLEAN, now \in Later :
           BackingFetchResponse(branch, zipped, now) /\ UNCHANGED otherThanProgress
    \/ \E v \in 0..100, now \in Later :
           BackingFetchStep(v, now) /\ UNCHANGED otherThanProgress
    \/ \E now \in Later : BackingFetchReturn(now) /\ UNCHANGED otherThanProgress
    \/ ProgressTranslateDone /\ UNCHANGED otherThanProgress
    \/ ProgressTimer90 /\ UNCHANGED otherThanProgress
    \/ ProgressTimer95 /\ UNCHANGED otherThanProgress
    \/ ProgressTimer100 /\ UNCHANGED otherThanProgress
    \/ ProgressFails /\ UNCHANGED otherThanProgress

\* the state after the module was evaluated, the progress of the call followed
InitProgress ==
    /\ LoaderInit
    /\ ProgressInit
    /\ registry = Unobserved
    /\ resolver = Unobserved
    /\ transport = Unobserved
    /\ outcome = Unobserved
    /\ parse = Unobserved

SpecProgress == InitProgress /\ [][NextProgress]_vars

\* The registry cache and its callers
NextRegistry ==
    \/ \E c \in Callers : RegistryCall(c, "pairs", <<"ja", "en">>)
                              /\ UNCHANGED otherThanRegistry
    \/ \E c \in Callers, q \in Queries : RegistryCall(c, "info", q)
                              /\ UNCHANGED otherThanRegistry
    \/ \E c \in Callers, kind \in {"error", "timeout"} :
           RegistryFetchFails(c, kind) /\ UNCHANGED otherThanRegistry
    \/ \E c \in Callers, data \in ServedData :
           RegistryFetchResponds(c, data) /\ UNCHANGED otherThanRegistry
    \/ \E c \in Callers : RegistryBackoffEnds(c) /\ UNCHANGED otherThanRegistry
    \/ clearBergamotLanguagePairsCache /\ UNCHANGED otherThanRegistry

\* the state after the module was evaluated, in the browser or on the server
InitRegistry ==
    /\ LoaderInit
    /\ progress = Unobserved
    /\ registry \in {RegistryIdle(client) : client \in BOOLEAN}
    /\ resolver = Unobserved
    /\ transport = Unobserved
    /\ outcome = Unobserved
    /\ parse = Unobserved

SpecRegistry == InitRegistry /\ [][NextRegistry]_vars

\* The two functions of the registry document, for every document and pair
InitResolver ==
    /\ LoaderInit
    /\ progress = Unobserved
    /\ registry = Unobserved
    /\ resolver \in {ResolverStart(doc, source, target) :
                         doc \in RegistryData, source \in Langs, target \in Langs}
    /\ transport = Unobserved
    /\ outcome = Unobserved
    /\ parse = Unobserved

NextResolver ==
    \/ ApplyPairInfo /\ UNCHANGED otherThanResolver
    \/ ApplyEstimate /\ UNCHANGED otherThanResolver

SpecResolver == InitResolver /\ [][NextResolver]_vars

\* The per-pair resolver and the bulk enumeration on the same document
NextBulk ==
    \/ ApplyPairInfo /\ UNCHANGED otherThanResolver
    \/ ApplyAll /\ UNCHANGED otherThanResolver

SpecBulk == InitResolver /\ [][NextBulk]_vars

\* The transport of one translator: the page's calls and the worker's messages
NextTransport ==
    \/ LoadWorker /\ UNCHANGED otherThanTransport
    \/ \E c \in ProxyCalls : ProxyCall(c[1], c[2]) /\ UNCHANGED otherThanTransport
    \/ \E data \in WorkerData : WorkerPosts(data) /\ UNCHANGED otherThanTransport
    \/ OnMessage /\ UNCHANGED otherThanTransport
    \/ WorkerError /\ UNCHANGED otherThanTransport
    \/ WorkerMessageError /\ UNCHANGED otherThanTransport

\* the state after new Worker(workerUrl)
InitTransport ==
    /\ LoaderInit
    /\ progress = Unobserved
    /\ registry = Unobserved
    /\ resolver = Unobserved
    /\ TransportInit
    /\ outcome = Unobserved
    /\ parse = Unobserved

SpecTransport == InitTransport /\ [][NextTransport]_vars

\* The page runs what it can run: loadWorker is called and every message in
\* the event queue is delivered.  Nothing makes the worker send a message.
SpecTransportLive ==
    /\ InitTransport
    /\ [][NextTransport]_vars
    /\ WF_vars(LoadWorker /\ UNCHANGED otherThanTransport)
    /\ WF_vars(OnMessage /\ UNCHANGED otherThanTransport)

\* One loadBergamotModel call, its token, cancelBergamotModelLoad and the
\* failures of the environment
NextOutcome ==
    \/ \E fired \in BOOLEAN, busy \in BOOLEAN :
           OutcomeLoad(fired, busy) /\ UNCHANGED otherThanOutcome
    \/ OutcomeSignalFires /\ UNCHANGED otherThanOutcome
    \/ OutcomeCancel /\ UNCHANGED otherThanOutcome
    \/ OutcomeOtherEnds /\ UNCHANGED otherThanOutcome
    \/ \E cached \in BOOLEAN : OutcomeWaitWake(cached) /\ UNCHANGED otherThanOutcome
    \/ OutcomeImportDone /\ UNCHANGED otherThanOutcome
    \/ \E message \in EnvMessages :
           OutcomeImportFails(message) /\ UNCHANGED otherThanOutcome
    \/ \E ok \in BOOLEAN, message \in EnvMessages :
           OutcomeRegistry(ok, message) /\ UNCHANGED otherThanOutcome
    \/ \E fetchError \in FetchErrors, wrapped \in BOOLEAN :
           OutcomeFetchFails(fetchError, wrapped) /\ UNCHANGED otherThanOutcome
    \/ \E remote \in EnvMessages :
           OutcomeWorkerFails(remote) /\ UNCHANGED otherThanOutcome
    \/ \E remote \in EnvMessages :
           OutcomeTrialFails(remote) /\ UNCHANGED otherThanOutcome
    \/ OutcomeTrialDone /\ UNCHANGED otherThanOutcome

InitOutcome ==
    /\ LoaderInit
    /\ progress = Unobserved
    /\ registry = Unobserved
    /\ resolver = Unobserved
    /\ transport = Unobserved
    /\ OutcomeInit
    /\ parse = Unobserved

SpecOutcome == InitOutcome /\ [][NextOutcome]_vars

\* One caller of getAvailableBergamotLanguagePairs and the documents the
\* endpoint may answer with
NextParse ==
    \/ ParseCall /\ UNCHANGED otherThanParse
    \/ \E kind \in {"error", "timeout"} : ParseFetchFails(kind) /\ UNCHANGED otherThanParse
    \/ \E data \in Responses : ParseResponds(data) /\ UNCHANGED otherThanParse
    \/ ParseBackoffEnds /\ UNCHANGED otherThanParse

InitParse ==
    /\ LoaderInit
    /\ progress = Unobserved
    /\ registry = Unobserved
    /\ resolver = Unobserved
    /\ transport = Unobserved
    /\ outcome = Unobserved
    /\ ParseInit

SpecParse == InitParse /\ [][NextParse]_vars

\* ---- invariants of the representation
TypeOK ==
    /\ bergamotTranslators \in [Keys -> Handles \cup {NoHandle}]
    /\ activeLoaders \in [Keys -> Handles \cup {NoHandle}]
    /\ aborted \subseteq Handles
    /\ nextId \in 1..(MaxCalls + 1)
    /\ pc \in [Callers -> {"idle", "wait", "import", "trial", "translate", "finish"}]
    /\ res \in [Callers -> {"none", "ok", "aborted", "failed"}]
    /\ calls \in 0..MaxCalls

\* a LoadRecord is registered only on a cache miss, and bergamotTranslators.set
\* runs in the same step as the finally block: the delete of line 1001 never
\* finds an entry
LoaderExcludesCache ==
    \A k \in Keys : MapHas(activeLoaders, k) => ~MapHas(bergamotTranslators, k)

\* =================================================================
\* Properties
\* =================================================================
Done(c) == pc[c] = "idle" /\ res[c] # "none"

LoadDone(c) == Done(c) /\ op[c] = "load"

\* C1: a translator is in the cache for a key only after the trial
\* translation of that translator has completed successfully.
C1_CachedOnlyAfterTrial ==
    \A k \in Keys : MapHas(bergamotTranslators, k) => bergamotTranslators[k] \in trialOK

\* the translators created for pair k, and those whose download has begun
Created(k) == {h \in Handles : hkey[h] = k}

DownloadSequences(k) == {h \in Created(k) : stage[h] \in {"fetch", "ready"}}

InFlight(k) == {c \in Callers : pc[c] # "idle" /\ key[c] = k}

\* C2: concurrent loadBergamotModel calls for one never-loaded pair create one
\* translator and run one download sequence; every caller eventually returns,
\* and returns the translator that is in the cache.
C2_OneDownloadSameHandle ==
    /\ [](\A k \in Keys :
            /\ Cardinality(Created(k)) <= 1
            /\ Cardinality(DownloadSequences(k)) <= 1
            /\ \A c \in Callers :
                 LoadDone(c) /\ key[c] = k =>
                    /\ res[c] = "ok"
                    /\ tr[c] = bergamotTranslators[k]
                    /\ tr[c] \in Created(k)
            /\ (InFlight(k) = {} /\ \E c \in Callers : LoadDone(c) /\ key[c] = k) =>
                    /\ Cardinality(DownloadSequences(k)) = 1
                    /\ \A h \in Created(k) : filesDownloaded[h] = FilesPerModel)
    /\ \A c \in Callers : [](pc[c] # "idle" => <>(LoadDone(c) /\ res[c] = "ok"))

\* two callers were in flight together (the second one waited on the first
\* one's LoadRecord) and both returned the cached translator
C2_Witness ==
    /\ \A c \in Callers : LoadDone(c) /\ res[c] = "ok" /\ tr[c] = bergamotTranslators[key[c]]
    /\ \E c \in Callers : "waited" \in obs[c]
    /\ tr["A"] = tr["B"]
    /\ key["A"] = key["B"]

\* C3: a cancelBergamotModelLoad issued while a load downloads model files
\* makes that load fail with an abort error, after which neither table has an
\* entry for the pair (a download that failed for a reason of its own aside).
C3_CancelMidDownloadAborts ==
    \A c \in Callers :
        (LoadDone(c) /\ "cancel" \in obs[c] /\ res[c] # "failed") =>
            /\ res[c] = "aborted"
            /\ ~MapHas(bergamotTranslators, key[c])
            /\ ~MapHas(activeLoaders, key[c])

\* C4: the caller's abortSignal firing while a model file fetch of its load is
\* in progress makes the load fail with an abort error (a fetch that failed
\* for a reason of its own aside).
C4_SignalMidFetchAborts ==
    \A c \in Callers :
        (LoadDone(c) /\ "signal" \in obs[c] /\ res[c] # "failed") => res[c] = "aborted"

\* C5: no two calls for the same key are at the same time between
\* activeLoaders.set and the finally block.
C5_OneLoadInFlight ==
    \A c1, c2 \in Callers :
        (c1 # c2 /\ pc[c1] = "import" /\ pc[c2] = "import") => key[c1] # key[c2]

\* C6: the translator of a load that cancelBergamotModelLoad cancelled never
\* becomes cache-resident.
C6_CancelledNeverCached ==
    \A k \in Keys : MapHas(bergamotTranslators, k) => bergamotTranslators[k] \notin cancelled

CleanAfterFailure ==
    /\ ~MapHas(bergamotTranslators, last.k)
    /\ last.h # NoHandle => activeLoaders[last.k] # last.h

\* C7 (as stated): whenever a loadBergamotModel call fails, at whatever stage,
\* the cache has no entry for the pair and no LoadRecord of the call remains.
C7_FailureLeavesClean == last.ev = "loadFail" => CleanAfterFailure

\* C7 (amended): that holds for every failure after the pre-check; a call
\* rejected by the pre-check leaves the cache entry as it was.
C7_FailureInTryLeavesClean ==
    last.ev = "loadFail" =>
        IF last.flag
        THEN CleanAfterFailure
        ELSE bergamotTranslators[last.k] = last.before

\* a load failed inside its try block while the pair was cached
C7_Witness == last.ev = "loadFail" /\ last.flag /\ last.before # NoHandle

\* C8: once a load of a pair has completed successfully, the cache entry of the
\* pair is never removed or replaced.
C8_CompletedStaysCached ==
    [][\A k \in Keys :
          (MapHas(completed, k) /\ bergamotTranslators[k] = completed[k]) =>
              bergamotTranslators'[k] = completed[k]]_vars

\* C9: cancelBergamotModelLoad without a LoadRecord changes neither table, and
\* a second cancel in a row changes nothing the first one left.
C9_CancelIdempotent ==
    /\ \A p \in LangPairs :
         LET k == ModelKey(p[1], p[2])
             once == CancelState(Tables, k) IN
         /\ ~MapHas(activeLoaders, k) => once = Tables
         /\ CancelState(once, k) = once
    /\ (last.ev = "cancel" /\ ~last.flag) =>
         /\ bergamotTranslators[last.k] = last.before
         /\ ~MapHas(activeLoaders, last.k)

\* a cancel ran without a LoadRecord while the pair was cached
C9_Witness ==
    /\ last.ev = "cancel"
    /\ ~last.flag
    /\ MapHas(bergamotTranslators, last.k)

C11_ProgressNonDecreasing ==
    (progress.ldPc = "idle" /\ progress.ldRes = "ok") => ~progress.decreased

\* C12: a successful load with a progress callback reports 100 last, and a
\* load that ends in failure has not reported 100.
C12_EndsAt100 ==
    /\ (progress.ldPc = "idle" /\ progress.ldRes = "ok") => progress.lastProg = 100
    /\ (progress.ldPc = "idle" /\ progress.ldRes = "failed") => ~progress.saw100

\* a load that downloaded its files returned after reporting 100
C12_Witness ==
    /\ progress.ldPc = "idle"
    /\ progress.ldRes = "ok"
    /\ progress.filesDownloaded >= 3
    /\ progress.lastProg = 100

\* C13: totalFilesEstimate is 6 for every pair getTranslationPairInfo
\* classifies as pivot and 3 for every pair it classifies as direct, whatever
\* the registry document.
C13_EstimateMatchesResolver ==
    resolver.applied = {"info", "estimate"} =>
        /\ resolver.info.isPivot => resolver.estimate = 6
        /\ resolver.info.isDirect => resolver.estimate = 3

Range(q) == {q[i] : i \in DOMAIN q}

\* C14: a call whose first two fetch attempts fail (not by timeout) and whose
\* third succeeds has made exactly 3 attempts and returns a populated registry,
\* which is the registry cache when the call returns.
C14_ThirdAttemptSucceeds ==
    \A c \in Callers :
        registry.call[c].outcomes = <<"error", "error", "ok">> =>
            /\ registry.call[c].pc = "idle"
            /\ registry.call[c].fetches = 3
            /\ registry.call[c].res = "returned"
            /\ registry.call[c].ret # EmptyMap
            /\ (registry.last.ev = "settle" /\ registry.last.c = c) =>
                   registry.availableLanguagePairsCache = <<registry.call[c].ret>>

\* the third attempt of a call has just registry.succeeded
C14_Witness ==
    \E c \in Callers :
        /\ registry.call[c].outcomes = <<"error", "error", "ok">>
        /\ registry.last.ev = "settle"
        /\ registry.last.c = c

\* C15: the cache is set exactly from a successful fetch to the next
\* clearBergamotLanguagePairsCache; a call made while it is set returns the
\* cached registry without a request; only clearBergamotLanguagePairsCache
\* empties it.
C15_CachedUntilCleared ==
    /\ registry.succeeded <=> registry.availableLanguagePairsCache # << >>
    /\ (registry.last.ev = "call" /\ registry.last.succ) =>
           /\ registry.call[registry.last.c].pc = "idle"
           /\ registry.call[registry.last.c].res = "returned"
           /\ registry.call[registry.last.c].fetches = 0
           /\ <<registry.call[registry.last.c].ret>> = registry.last.before
    /\ (registry.last.before # << >> /\ registry.availableLanguagePairsCache = << >>) =>
           registry.last.ev = "clear"

\* a call was made after a fetch had registry.succeeded
C15_Witness ==
    /\ registry.last.ev = "call"
    /\ registry.last.succ
    /\ registry.availableLanguagePairsCache # << >>

\* C16: at most one registry request is outstanding at any time.
C16_OneRequestOutstanding ==
    Cardinality({c \in Callers : registry.call[c].pc = "fetch"}) <= 1

\* C17: a call one of whose fetch attempts timed out made no attempt after
\* that one and returned an empty registry.
C17_TimeoutStopsRetries ==
    \A c \in Callers :
        "timeout" \in Range(registry.call[c].outcomes) =>
            /\ registry.call[c].outcomes[Len(registry.call[c].outcomes)] = "timeout"
            /\ registry.call[c].fetches = Len(registry.call[c].outcomes)
            /\ registry.call[c].pc = "idle"
            /\ registry.call[c].res = "returned"
            /\ registry.call[c].ret = EmptyMap

\* the second attempt of a call timed out
C17_Witness ==
    \E c \in Callers : registry.call[c].outcomes = <<"error", "timeout">>

AllFailed(c) ==
    /\ Len(registry.call[c].outcomes) = Retries
    /\ Range(registry.call[c].outcomes) = {"error"}

\* C18: a call all of whose attempts failed returns (does not raise) an empty
\* registry, and getTranslationPairInfo reports available = false and
\* modelCount = 0 for every pair on it.
C18_ExhaustedGivesEmpty ==
    \A c \in Callers :
        AllFailed(c) =>
            /\ registry.call[c].pc = "idle"
            /\ registry.call[c].res = "returned"
            /\ registry.call[c].ret = EmptyMap
            /\ registry.call[c].op = "info" =>
                   registry.call[c].info = PairInfo(registry.call[c].ret,
                                                    registry.call[c].query[1],
                                                    registry.call[c].query[2])
            /\ \A source \in Langs, target \in Langs :
                   /\ ~PairInfo(registry.call[c].ret, source, target).available
                   /\ PairInfo(registry.call[c].ret, source, target).modelCount = 0

\* a getTranslationPairInfo call whose three attempts all failed
C18_Witness ==
    \E c \in Callers :
        /\ AllFailed(c)
        /\ registry.call[c].op = "info"
        /\ ~registry.call[c].info.available

\* the registry the resolver worked on
Pairs == ParsePairs(resolver.doc)

Listed(a, b) == <<a, b>> \in Pairs

\* C19: unavailable with no model when source equals target; otherwise direct
\* with one model when the registry lists the pair; otherwise a pivot with two
\* models and the path through "en" when neither endpoint is "en" and both
\* legs are listed; unavailable with no model in every remaining case.
C19_ResolverCases ==
    "info" \in resolver.applied =>
        IF resolver.source = resolver.target
        THEN ~resolver.info.available /\ resolver.info.modelCount = 0
        ELSE IF Listed(resolver.source, resolver.target)
        THEN resolver.info.available /\ resolver.info.isDirect /\ resolver.info.modelCount = 1
        ELSE IF /\ resolver.source # "en"
                /\ resolver.target # "en"
                /\ Listed(resolver.source, "en")
                /\ Listed("en", resolver.target)
        THEN /\ resolver.info.available
             /\ resolver.info.isPivot
             /\ resolver.info.modelCount = 2
             /\ resolver.info.pivotPath = resolver.source \o " → en → " \o resolver.target
        ELSE ~resolver.info.available /\ resolver.info.modelCount = 0

\* a pair with a direct model and both pivot legs was resolved as direct
C19_Witness ==
    /\ "info" \in resolver.applied
    /\ resolver.source # "en"
    /\ resolver.target # "en"
    /\ resolver.source # resolver.target
    /\ Listed(resolver.source, resolver.target)
    /\ Listed(resolver.source, "en")
    /\ Listed("en", resolver.target)
    /\ resolver.info.isDirect

HubRequest == resolver.source = "en" \/ resolver.target = "en"

\* C20 (as stated): a request with "en" as source or target is never a pivot;
\* it is direct if the registry lists the pair and unavailable otherwise.
C20_HubNeverPivot ==
    ("info" \in resolver.applied /\ HubRequest) =>
        /\ ~resolver.info.isPivot
        /\ IF Listed(resolver.source, resolver.target)
           THEN resolver.info.available /\ resolver.info.isDirect
           ELSE ~resolver.info.available

\* C20 (amended): never a pivot; direct if source and target differ and the
\* registry lists the pair, unavailable otherwise ("en" to "en" is unavailable
\* even if the registry lists it).
C20_HubNeverPivotDistinct ==
    ("info" \in resolver.applied /\ HubRequest) =>
        /\ ~resolver.info.isPivot
        /\ IF resolver.source # resolver.target /\ Listed(resolver.source, resolver.target)
           THEN resolver.info.available /\ resolver.info.isDirect
           ELSE ~resolver.info.available

\* a request to "en" without a direct model, the registry listing models
\* from "en", was resolved as unavailable
C20_Witness ==
    /\ "info" \in resolver.applied
    /\ resolver.target = "en"
    /\ resolver.source # "en"
    /\ ~Listed(resolver.source, "en")
    /\ \E t \in Langs : Listed("en", t)
    /\ ~resolver.info.available

\* ---- RPC Transport
\* the step delivers a message of the worker to the 'message' listener
Delivers == transport.inbox # << >> /\ transport'.inbox = Tail(transport.inbox)

\* C21: a response whose id has no pending entry settles no call, fails
\* nothing and leaves the pending table and every call as they were.
C21_UnknownIdDropped ==
    [][(Delivers /\ Head(transport.inbox).id \notin DOMAIN transport.pending) =>
           /\ transport'.pending = transport.pending
           /\ transport'.log = transport.log
           /\ transport'.posted = transport.posted
           /\ transport'.serial = transport.serial
           /\ transport'.init = transport.init
           /\ transport'.failure = transport.failure]_vars

\* a response with an unknown id was dropped while a call was in flight
C21_Witness ==
    /\ transport.last.ev = "dropped"
    /\ transport.last.id \notin DOMAIN transport.pending
    /\ \E n \in DOMAIN transport.log : transport.log[n].state = "pending"

\* the call that was made with this id and is not settled
CallOf(id) ==
    CHOOSE n \in DOMAIN transport.log :
        transport.log[n].id = id /\ transport.log[n].state = "pending"

\* C22: a response {id, error} for a pending call rejects that call and no
\* other, with a message that contains the remote message and the name and
\* stringified arguments of the call made with that id; a response
\* {id, result} resolves that call and no other with result.
C22_SettlesExactlyThatCall ==
    [][(Delivers /\ Head(transport.inbox).id \in DOMAIN transport.pending) =>
           LET data == Head(transport.inbox)
               n == CallOf(data.id)
               made == transport.log[n]
               now == transport'.log[n]
           IN  /\ DOMAIN transport'.log = DOMAIN transport.log
               /\ \A m \in DOMAIN transport.log :
                      m # n => transport'.log[m] = transport.log[m]
               /\ IF data.error.defined
                  THEN /\ now.state = "rejected"
                       /\ Contains(now.value, data.error.message)
                       /\ Contains(now.value, CallsiteMessage(made.name, made.args))
                       /\ Contains(now.value, made.name)
                       /\ \A i \in DOMAIN made.args :
                              Contains(now.value, StringOf(made.args[i]))
                  ELSE /\ now.state = "accepted"
                       /\ now.value = data.result]_vars

\* a call with arguments was rejected while another call stayed in flight
C22_Witness ==
    /\ transport.last.ev = "settled"
    /\ \E n, m \in DOMAIN transport.log :
           /\ transport.log[n].id = transport.last.id
           /\ transport.log[n].state = "rejected"
           /\ transport.log[n].args # << >>
           /\ transport.log[m].state = "pending"

\* C23: ids grow strictly in call order; every message was posted with its
\* id, name and args after the entry of that id was recorded; every unsettled
\* call has its own entry, so no two pending entries share an id.
C23_IdsIncreaseAndRecorded ==
    /\ \A i, j \in DOMAIN transport.log :
           i < j => transport.log[i].id < transport.log[j].id
    /\ DOMAIN transport.posted = DOMAIN transport.log
    /\ \A i \in DOMAIN transport.posted :
           /\ transport.posted[i].recorded
           /\ transport.posted[i].id = transport.log[i].id
           /\ transport.posted[i].name = transport.log[i].name
           /\ transport.posted[i].args = transport.log[i].args
    /\ \A i \in DOMAIN transport.log :
           transport.log[i].state = "pending" =>
               /\ transport.log[i].id \in DOMAIN transport.pending
               /\ transport.pending[transport.log[i].id].call = i
    /\ \A id \in DOMAIN transport.pending :
           transport.log[transport.pending[id].call].state = "pending"

\* three calls were made and two of them are pending together
C23_Witness ==
    /\ Len(transport.posted) >= 3
    /\ Cardinality(DOMAIN transport.pending) >= 2

\* C24: once loadWorker waits for the initialize call, it ends: with a failure
\* unless the worker answered with a result.
C24_InitializeEnds ==
    (transport.init = "waiting") ~> (transport.init \in {"loaded", "failed"})

\* ---- failures of a load
\* the error is of the abort kind: the error as first thrown, saying 'aborted'
AbortKind == outcome.unwrapped /\ IsAbortMessage(outcome.message)

OtherCauses == {"import", "registry", "network", "timeout", "http", "gzip", "worker", "trial"}

\* C25: a rejected loadBergamotModel call is of the abort kind exactly when a
\* check found the cancellation; a failure with another cause is not of the
\* abort kind, and an observed cancellation is.
C25_AbortKindIffObserved ==
    outcome.res = "rejected" =>
        /\ AbortKind <=> outcome.observed
        /\ outcome.cause \in OtherCauses => ~AbortKind
        /\ outcome.cause = "cancel" <=> outcome.observed

\* a per-file timeout whose AbortError says 'aborted' was reported as another
\* failure
C25_Witness ==
    /\ outcome.res = "rejected"
    /\ outcome.cause = "timeout"
    /\ ~AbortKind
    /\ Contains(outcome.message, CancelledMessage)

\* ---- the shortcut of loadBergamotModel
\* the step is a loadBergamotModel call for the pair whose translator is in
\* the cache
LoadsCachedPair ==
    /\ progress'.loads = progress.loads + 1
    /\ progress.ldCached
    /\ progress'.ldPair = progress.ldPair

\* C26: a loadBergamotModel call for a cached pair returns the cached handle
\* in the same step, reports 100, registers no LoadRecord and starts no
\* import, registry request, fetch or trial translation.
C26_CachedLoadReturnsAtOnce ==
    [][LoadsCachedPair =>
           /\ progress'.ldPc = "idle"
           /\ progress'.ldRes = "ok"
           /\ progress'.ret = progress.handle
           /\ progress'.ret # NoHandle
           /\ progress'.lastProg = 100
           /\ ~progress'.record
           /\ progress'.handle = progress.handle
           /\ progress'.ldCached
           /\ progress'.filesDownloaded = progress.filesDownloaded
           /\ progress'.need = progress.need
           /\ progress'.path = progress.path
           /\ progress'.fileProgress = progress.fileProgress
           /\ progress'.lastProgressUpdate = progress.lastProgressUpdate]_vars

\* the second call returned the translator the first call had created
C26_Witness ==
    /\ progress.loads = 2
    /\ progress.ldPc = "idle"
    /\ progress.ldRes = "ok"
    /\ progress.ret = 1
    /\ progress.lastProg = 100

\* ---- the wait loop of getBergamotTranslator
\* C27: a call that waits for a LoadRecord has registered no record and has
\* no translator; a step in which the record exists leaves the waiting call
\* without a record and without a new translator; the call stops waiting only
\* with the cached handle, or as the loader once the record is gone, or with
\* an abort error once its token has fired.
C27_WaiterDoesNotLoad ==
    [][\A c \in Callers :
           pc[c] = "wait" =>
               LET k == key[c] IN
               /\ ctrl[c] = NoHandle /\ tr[c] = NoHandle
               /\ MapHas(activeLoaders, k) =>
                      /\ ctrl'[c] = NoHandle
                      /\ activeLoaders'[k] \in {activeLoaders[k], NoHandle}
                      /\ tr'[c] \in {NoHandle, bergamotTranslators[k]}
               /\ pc'[c] # "wait" =>
                      \/ /\ MapHas(bergamotTranslators, k)
                         /\ activeLoaders' = activeLoaders
                         /\ nextId' = nextId
                         /\ IF sig[c]
                            THEN pc'[c] = "idle" /\ res'[c] = "aborted"
                            ELSE /\ tr'[c] = bergamotTranslators[k]
                                 /\ pc'[c] \in {"trial", "translate"}
                      \/ /\ ~MapHas(bergamotTranslators, k)
                         /\ ~MapHas(activeLoaders, k)
                         /\ ~sig[c]
                         /\ pc'[c] = "import"
                         /\ ctrl'[c] = nextId
                         /\ activeLoaders'[k] = nextId
                      \/ /\ ~MapHas(bergamotTranslators, k)
                         /\ sig[c]
                         /\ pc'[c] = "idle"
                         /\ res'[c] = "aborted"
                         /\ activeLoaders' = activeLoaders
                         /\ nextId' = nextId]_vars

\* a call that had waited became the loader after the record disappeared
C27_Witness ==
    \E c \in Callers :
        /\ "waited" \in obs[c]
        /\ pc[c] = "import"
        /\ activeLoaders[key[c]] = ctrl[c]

\* ---- the lifetime of a LoadRecord
\* a load call that registered a LoadRecord and has not settled yet: it is
\* suspended at the dynamic import, or translate() downloads the model files
\* and runs the trial translation
LoadRunning(c) ==
    /\ op[c] = "load"
    /\ pc[c] \in {"import", "trial"}
    /\ ctrl[c] # NoHandle

\* C28: from the moment a load registers until its file downloads and its
\* trial translation have finished or failed, activeLoaders contains the key
\* of the pair.
C28_RecordWhileLoadRuns ==
    \A c \in Callers : LoadRunning(c) => MapHas(activeLoaders, key[c])

\* ---- the presence check and the registration
\* two first-time calls for one pair are inside getBergamotTranslator
\* together: each is past the cache check, which found no translator, and
\* none has seen its import resolve
SimultaneousFirstTime(c, d) ==
    /\ c # d
    /\ key[c] = key[d]
    /\ pc[c] \in {"import", "wait"}
    /\ pc[d] \in {"import", "wait"}
    /\ ~MapHas(bergamotTranslators, key[c])

\* C29 (as stated): two simultaneous first-time calls for the same pair both
\* pass the presence check (each goes on to register a LoadRecord of its
\* own), neither finding a record registered by the other.
C29_BothPassBeforeEitherRegisters ==
    \A c, d \in Callers :
        SimultaneousFirstTime(c, d) =>
            /\ pc[c] = "import" /\ ctrl[c] # NoHandle
            /\ pc[d] = "import" /\ ctrl[d] # NoHandle

\* C29 (amended): no await separates the presence check from the
\* registration.  A call passes the check only in a step that starts with
\* neither a cached translator nor a LoadRecord for the pair, and the same
\* step registers the call's own LoadRecord while no other call moves; a call
\* that starts while a record exists waits and registers nothing.
C29_CheckAndRegisterInOneStep ==
    [][\A c \in Callers :
           /\ (pc[c] \in {"idle", "wait"} /\ pc'[c] = "import") =>
                  LET k == key'[c] IN
                  /\ ~MapHas(bergamotTranslators, k)
                  /\ ~MapHas(activeLoaders, k)
                  /\ ctrl'[c] # NoHandle
                  /\ activeLoaders'[k] = ctrl'[c]
                  /\ \A d \in Callers \ {c} : pc'[d] = pc[d] /\ ctrl'[d] = ctrl[d]
           /\ (pc[c] = "idle" /\ pc'[c] # "idle" /\ MapHas(activeLoaders, key'[c])
               /\ ~MapHas(bergamotTranslators, key'[c])) =>
                  /\ pc'[c] = "wait"
                  /\ ctrl'[c] = NoHandle
                  /\ activeLoaders' = activeLoaders]_vars

\* two first-time calls in flight together: the first one registered, the
\* second one found the record and waits
C29_Witness ==
    \E c, d \in Callers :
        /\ key[c] = key[d]
        /\ pc[c] = "import" /\ activeLoaders[key[c]] = ctrl[c]
        /\ pc[d] = "wait" /\ ctrl[d] = NoHandle
        /\ calls = 2

\* ---- the throttle of updateProgress
\* C30: a call of updateProgress whose rounded value equals the last
\* reported value and that comes less than 100 ms after the previous callback
\* invocation does not invoke onProgress.
C30_RepeatWithin100msSuppressed == ~progress.repeated

\* ---- the registry response
\* a key of the form "source-target": two non-empty parts around one '-'
SourceTargetKey(k) ==
    LET parts == Split(k) IN
    Len(parts) = 2 /\ parts[1] # "" /\ parts[2] # ""

\* the document has no models mapping, or no "source-target" key of it has
\* a non-empty list
NothingToParse(data) ==
    \/ data.shape # "object"
    \/ \A k \in RawKeySet : ~(SourceTargetKey(k) /\ data.models[k] = "models")

\* the attempt that received the last document ended like one whose fetch
\* failed: nothing is cached, and the call sleeps before the next attempt or
\* returns an empty Map after the last one
FailedAttempt ==
    /\ parse.availableLanguagePairsCache = << >>
    /\ \/ parse.pc = "backoff" /\ parse.attempt < Retries - 1
       \/ parse.pc = "idle" /\ parse.attempt = Retries - 1 /\ parse.ret = << >>

\* every target of the cached Map stands for a key "s-t" with a non-empty list
ListedOnlyFromKeys ==
    parse.availableLanguagePairsCache # << >> =>
        LET pairs == parse.availableLanguagePairsCache[1] IN
        \A i \in DOMAIN pairs :
            /\ ModelKey(pairs[i][1], pairs[i][2]) \in RawKeySet
            /\ parse.parsed.models[ModelKey(pairs[i][1], pairs[i][2])] = "models"

\* C31: a response without a models mapping, or whose mapping has no
\* "source-target" entry with a non-empty list, is a failed attempt (retried
\* like any other failure, never cached); a target t is listed under s in a
\* parsed registry only if the response had a key "s-t" with a non-empty list.
C31_MalformedResponseFails ==
    /\ (parse.last = "response" /\ NothingToParse(parse.data)) => FailedAttempt
    /\ ListedOnlyFromKeys

\* what holds of the code: a document of which the loop takes no entry is a
\* failed attempt
NoEntryTakenFails ==
    (parse.last = "response"
     /\ (~ValidShape(parse.data) \/ ParseModels(parse.data.models) = << >>)) =>
        FailedAttempt

\* ---- the bulk enumeration
\* C32: for every registry, target t is in pivot[s] of
\* getAllBergamotLanguagePairs if and only if getTranslationPairInfo(s, t)
\* returns isPivot = true, and the direct map is the registry itself.
C32_BulkAgreesWithResolver ==
    resolver.applied = {"info", "all"} =>
        /\ (<<resolver.source, resolver.target>> \in resolver.all.pivot)
               <=> resolver.info.isPivot
        /\ resolver.all.direct = ParsePairs(resolver.doc)

\* both functions ran on a registry with a direct pair and a pivot route,
\* and both report the route asked about
C32_Witness ==
    /\ resolver.applied = {"info", "all"}
    /\ resolver.info.isPivot
    /\ <<resolver.source, resolver.target>> \in resolver.all.pivot
    /\ resolver.all.direct # {}
    /\ \E p \in resolver.all.direct : p[1] # "en" /\ p[2] # "en"

\* ---- a registry call that fails
\* the call with record r ended in failure: its last attempt failed or timed
\* out and it returned the empty Map
EndedInFailure(r) ==
    /\ r.pc = "idle"
    /\ r.res = "returned"
    /\ r.ret = EmptyMap
    /\ Len(r.outcomes) > 0
    /\ r.outcomes[Len(r.outcomes)] \in {"error", "timeout"}

\* C33: a getAvailableBergamotLanguagePairs call that ends in failure leaves
\* the registry cache empty, and the next call performs a fresh fetch
\* sequence.
C33_FailureLeavesCacheEmpty ==
    [][\A c \in Callers :
           /\ (registry'.last.ev = "settle" /\ registry'.last.c = c
               /\ EndedInFailure(registry'.call[c])) =>
                  registry'.availableLanguagePairsCache = << >>
           /\ (/\ registry.last.ev = "settle"
               /\ registry.last.c \in Callers
               /\ EndedInFailure(registry.call[registry.last.c])
               /\ registry'.last.ev = "call"
               /\ registry'.last.c = c) =>
                  /\ registry'.call[c].pc = "fetch"
                  /\ registry'.call[c].fetches = 1]_vars

\* what holds of the code: the step in which a call ends in failure does not
\* write the cache, and the cache never holds the empty Map
FailingCallKeepsCache ==
    [][\A c \in Callers :
           (registry'.last.ev = "settle" /\ registry'.last.c = c
            /\ EndedInFailure(registry'.call[c])) =>
               /\ registry'.availableLanguagePairsCache = registry.availableLanguagePairsCache
               /\ registry'.availableLanguagePairsCache # <<EmptyMap>>]_vars

\* ---- who removes a LoadRecord
\* C34: a LoadRecord is removed from activeLoaders only by the call that
\* registered it (its finally block) or by cancelBergamotModelLoad for its
\* pair; the finally block of one call never removes the record of another.
C34_RecordRemovedByOwnerOrCancel ==
    [][\A k \in Keys :
           (MapHas(activeLoaders, k) /\ activeLoaders'[k] # activeLoaders[k]) =>
               \/ last'.ev = "cancel" /\ last'.k = k
               \/ \E c \in Callers :
                      /\ ctrl[c] = activeLoaders[k]
                      /\ key[c] = k
                      /\ pc[c] = "import"
                      /\ pc'[c] # "import"]_vars

\* ---- a waiting load whose own token fired
\* C35: a loadBergamotModel call that fails because its own token fired while
\* it waited on another caller's load, or right after it obtained the shared
\* handle, does not remove from the cache a handle another caller's load
\* created.
C35_AbortedWaiterKeepsOthersHandle ==
    [][\A c \in Callers :
           (/\ op[c] = "load"
            /\ pc[c] = "wait"
            /\ sig[c]
            /\ pc'[c] = "idle"
            /\ res'[c] = "aborted"
            /\ MapHas(bergamotTranslators, key[c])) =>
               bergamotTranslators'[key[c]] = bergamotTranslators[key[c]]]_vars

\* ---- cancelled handles in the cache
\* no load or translate call is in flight for the pair with key k
NoCallInFlight(k) == \A c \in Callers : pc[c] = "idle" \/ key[c] # k

\* C36: whenever no call is in flight for a pair, the cache holds no handle
\* for it whose backing is bound to an aborted controller; and a
\* loadBergamotModel call never returns such a handle as loaded.
C36_NoAbortedHandleAtRest ==
    /\ \A k \in Keys :
           (NoCallInFlight(k) /\ MapHas(bergamotTranslators, k)) =>
               bergamotTranslators[k] \notin aborted
    /\ \A c \in Callers :
           (op[c] = "load" /\ pc[c] = "idle" /\ res[c] = "ok") => tr[c] \notin aborted

\* ---- a call is settled once
\* C37: each call is settled at most once: accept or reject is called for it
\* when the first response with its id is handled and never again, and the
\* pending table holds exactly the ids of the calls that were sent and have
\* no response yet.
C37_SettledAtMostOnce ==
    /\ \A n \in DOMAIN transport.log :
           /\ transport.log[n].settled <= 1
           /\ transport.log[n].state = "pending" <=> transport.log[n].settled = 0
    /\ DOMAIN transport.pending =
           {transport.log[n].id : n \in {m \in DOMAIN transport.log :
                                             transport.log[m].state = "pending"}}
    /\ \A n \in DOMAIN transport.log :
           \E i \in DOMAIN transport.posted : transport.posted[i].id = transport.log[n].id

\* a second response with the id of a call that was settled has been dropped
\* while another call waits for its response
C37_Witness ==
    /\ transport.last.ev = "dropped"
    /\ \E n \in DOMAIN transport.log :
           /\ transport.log[n].id = transport.last.id
           /\ transport.log[n].settled = 1
    /\ transport.pending # EmptyPending

\* ---- error events of the worker
\* C38: an 'error' or 'messageerror' event of the worker leaves the pending
\* table unchanged and settles no call; a call stops being pending only when
\* a response with its id is handled.
C38_ErrorEventSettlesNothing ==
    [][/\ transport'.last.ev \in {"error", "messageerror"} =>
              /\ transport'.pending = transport.pending
              /\ transport'.log = transport.log
              /\ transport'.init = transport.init
       /\ \A n \in DOMAIN transport.log :
              (transport.log[n].state = "pending"
               /\ transport'.log[n].state # "pending") =>
                  /\ Delivers
                  /\ Head(transport.inbox).id = transport.log[n].id]_vars

\* an error event came while a call was outstanding, and the call is still
\* pending
C38_Witness ==
    /\ transport.last.ev \in {"error", "messageerror"}
    /\ transport.init = "loaded"
    /\ \E n \in DOMAIN transport.log :
           /\ transport.log[n].state = "pending"
           /\ transport.log[n].id \in DOMAIN transport.pending

====
